---- MODULE Spec2Model ----
(***************************************************************************)
(* Job lifecycle, assignment workflow and photo ledger of MowBot           *)
(* (src/telegram_bot.py).                                                  *)
(*                                                                         *)
(* The state is the grounds_data table, the context.user_data dictionary   *)
(* of every user, the updates that have been received and are not yet      *)
(* handled to the end (inflight), the clock, and the screen rendered by    *)
(* the step just taken.  A handler is a coroutine: the event loop switches *)
(* to another coroutine only at an await, so an action below is the code   *)
(* of one handler between two awaits.  SQLite statements on the local      *)
(* database are taken to succeed (no "except sqlite3.Error" branch is      *)
(* entered) except in handle_photo_raise, the failures of the ingestion of *)
(* a photo.  Time is a tick counter that never runs backwards; DayLen      *)
(* ticks make a calendar day.                                              *)
(*                                                                         *)
(* Spec handles one update at a time, as the application is built          *)
(* (ApplicationBuilder without concurrent_updates); the daily reset of the *)
(* job queue runs between any two steps.  SpecConcurrent takes a start or  *)
(* finish update while another is still being handled.                     *)
(* SpecReset adds the legacy entry point of the reset, SpecAssign is the   *)
(* assignment workflow of the directors, SpecPaging pages through a table  *)
(* longer than one page, and SpecPhotos uploads photos to jobs that are    *)
(* near the daily quota.  SpecView has the screens that show the photos    *)
(* of a job and the listing of completed jobs, SpecSession the flows that  *)
(* leave flags in the session of a user, SpecRouter the router of          *)
(* callback_handler over the data of every button, and SpecGrid the photo  *)
(* grid of jobs with a page of photos or more, beside the assignment list. *)
(***************************************************************************)
EXTENDS Integers, Sequences, FiniteSets, TLC

(* ------------------------------ bounds -------------------------------- *)
NumJobs == 2
NumUsers == 2
MaxTime == 2
MaxInflight == 2
MaxUpdates == 4
MaxPhotos == 1
MaxNotes == 1
MaxPage == 2
NumListedJobs == 12
NumFileIds == 1
NumScheduledDates == 1
DayLen == 2
MaxRouted == 2
MaxGridPage == 2
MaxGridPhotos == 11

(* --------------------------- program constants ------------------------ *)
PhotoLimit == 25
jobs_per_page == 10
CompletedLimit == 20
photos_per_page == 10

\* SQL NULL, Python None, a key that user_data does not have
NULL == 0 - 1
\* a slot of inflight that holds no update
Free == [user |-> NULL, family |-> "none", arg |-> NULL,
         pc |-> "free", today |-> NULL, file_id |-> NULL]

JobIds == 1..NumJobs
\* a job id that no row of grounds_data has
MissingJobId == NumJobs + 1
ArgIds == JobIds \cup {MissingJobId}
UserIds == 1..NumUsers
Slots == 1..MaxInflight
Times == 0..MaxTime
\* photo_file.file_id: the platform's identity of an uploaded file
FileIds == 1..NumFileIds

\* datetime.now().date() / date('now','localtime'): the calendar day of a tick
DateOf(t) == t \div DayLen
Dates == {DateOf(t) : t \in Times}
\* a file_id is text over letters, digits, "-" and "_": besides the plain ones
\* of FileIds there is, for every date, one whose text holds the ISO text of
\* that date
DatedFileId(date) == NumFileIds + 1 + date
DatedFileIds == {DatedFileId(date) : date \in Dates}
\* the date whose ISO text is part of the text of file_id, if any
DateInFileId(file_id) ==
    IF file_id \in DatedFileIds THEN file_id - NumFileIds - 1 ELSE NULL

\* the dates the provisioning step scheduled jobs for
ScheduledDates == 0..(NumScheduledDates - 1)

\* the pages a page_<n> button can ask for
Pages == 1..MaxPage

\* the scheduled daily reset is due at this tick of every day
ResetTick == DayLen - 1

JobFamilies == {"start_job", "finish_job", "toggle_job", "upload_photo"}

VARIABLES
    jobs,           \* grounds_data: job id -> row
    user_data,      \* context.user_data of every user
    rendered,       \* the screen the last step rendered, and to whom
    inflight,       \* updates received and not yet handled to the end
    update_id,      \* the number of updates received so far
    now,            \* the clock
    reset_pending,  \* the job queue has the daily reset due
    last_reset,     \* the last reset pass: its day and the rows it reset
    shown           \* the photos and the jobs listed on the rendered screen

vars == <<jobs, user_data, rendered, inflight, update_id, now, reset_pending,
          last_reset, shown>>

(* ----------------------------- helpers -------------------------------- *)

\* user_data before any handler wrote to it
EmptyUserData ==
    [has_selected_jobs |-> FALSE, selected_jobs |-> {}, awaiting_photo_for |-> NULL,
     bulk_upload_mode |-> FALSE, return_to_job_menu |-> FALSE,
     current_page |-> NULL, awaiting_note_for |-> NULL, awaiting_notes |-> FALSE,
     job_photos |-> << >>, job_id |-> NULL, photo_date |-> NULL,
     current_photo_index |-> NULL]

\* variant: one dictionary for the sessions of all users
WriteSession_Shared(u, session) == [v \in UserIds |-> session]

\* a handler writes to context.user_data, the dictionary that the application
\* keeps for the user of the update: the dictionaries after the write
WriteSession(u, session) == [user_data EXCEPT ![u] = session]

\* context.user_data.get("selected_jobs", set())
SelectedJobs(u) ==
    IF user_data[u].has_selected_jobs THEN user_data[u].selected_jobs ELSE {}

\* what a step that renders nothing leaves in rendered
NoRender == [user |-> NULL, screen |-> "none", by |-> "none"]
\* what a screen without photos and without a list of jobs leaves in shown
NoShow == [photos |-> << >>, jobs |-> << >>, buttons |-> {}, page |-> NULL]
Render(u, s, h) ==
    /\ rendered' = [user |-> u, screen |-> s, by |-> h]
    /\ shown' = NoShow
\* a screen that shows or counts photos, or lists jobs
RenderList(u, s, h, photos, listing) ==
    /\ rendered' = [user |-> u, screen |-> s, by |-> h]
    /\ shown' = [photos |-> photos, jobs |-> listing, buttons |-> {}, page |-> NULL]
Silent == rendered' = NoRender /\ shown' = NoShow
Done(s) == inflight' = [inflight EXCEPT ![s] = Free]
Goto(s, p) == inflight' = [inflight EXCEPT ![s].pc = p]

At(s, family, pc) ==
    /\ inflight[s] # Free
    /\ inflight[s].family = family
    /\ inflight[s].pc = pc

\* the next update is taken from the platform
Receive == update_id < MaxUpdates /\ update_id' = update_id + 1

\* the lowest free slot, if any
FreeSlots == {s \in Slots : inflight[s] = Free}
NextSlot == CHOOSE s \in FreeSlots : \A t \in FreeSlots : s <= t

\* what last_reset holds before any pass has run
NoReset == [date |-> NULL, jobs |-> {}]

(* ------------------------------- Init --------------------------------- *)

\* rows as the provisioning step leaves them: Pending, unassigned, no times
Init ==
    /\ jobs \in [JobIds -> [status : {"pending"}, assigned_to : {NULL},
                            start_time : {NULL}, finish_time : {NULL},
                            scheduled_date : {NULL} \cup ScheduledDates,
                            photos : {<< >>}, notes : {<< >>}]]
    /\ user_data = [u \in UserIds |-> EmptyUserData]
    /\ rendered = NoRender
    /\ update_id = 0
    /\ inflight = [s \in Slots |-> Free]
    /\ now = 0
    /\ reset_pending = FALSE
    /\ last_reset = NoReset
    /\ shown = NoShow

\* a table long enough for a second page: every row Pending, some of them
\* assigned already
InitPaging ==
    /\ jobs \in [1..NumListedJobs ->
                    [status : {"pending"}, assigned_to : {NULL, 1},
                     start_time : {NULL}, finish_time : {NULL},
                     scheduled_date : {NULL}, photos : {<< >>}, notes : {<< >>}]]
    /\ user_data = [u \in UserIds |-> EmptyUserData]
    /\ rendered = NoRender
    /\ update_id = 0
    /\ inflight = [s \in Slots |-> Free]
    /\ now = 0
    /\ reset_pending = FALSE
    /\ last_reset = NoReset
    /\ shown = NoShow

\* n photos of a job, uploaded on the first day, each from a file of its own
\* (the file ids below 1 are those of files sent before the first update)
StoredPhotos(job_id, n) ==
    [i \in 1..n |-> [job_id |-> job_id, date |-> DateOf(0), file_id |-> 1 - i]]

\* a table whose jobs have no photos yet or are one photo short of the quota
InitPhotos ==
    /\ \E n \in [JobIds -> {0, PhotoLimit - 1}] :
          jobs = [j \in JobIds |->
                    [status |-> "pending", assigned_to |-> NULL, start_time |-> NULL,
                     finish_time |-> NULL, scheduled_date |-> NULL,
                     photos |-> StoredPhotos(j, n[j]), notes |-> << >>]]
    /\ user_data = [u \in UserIds |-> EmptyUserData]
    /\ rendered = NoRender
    /\ update_id = 0
    /\ inflight = [s \in Slots |-> Free]
    /\ now = 0
    /\ reset_pending = FALSE
    /\ last_reset = NoReset
    /\ shown = NoShow

\* rows of a table in use: a job not yet assigned, one assigned, one started
\* on the first day and one finished on the first day, the last two with a
\* photo of that day
ViewRows(job_id) ==
    LET row == [status |-> "pending", assigned_to |-> NULL, start_time |-> NULL,
                finish_time |-> NULL, scheduled_date |-> NULL, photos |-> << >>,
                notes |-> << >>]
        photo == [job_id |-> job_id, date |-> DateOf(0), file_id |-> 1]
    IN  {row,
         [row EXCEPT !.assigned_to = 1],
         [row EXCEPT !.assigned_to = 1, !.status = "in_progress", !.start_time = 0,
                     !.photos = <<photo>>],
         [row EXCEPT !.assigned_to = 1, !.status = "completed", !.start_time = 0,
                     !.finish_time = 0, !.photos = <<photo>>]}

\* a table in use; the last user may have selected the first job for assignment
InitView ==
    /\ jobs \in {f \in [JobIds -> UNION {ViewRows(j) : j \in JobIds}] :
                    \A j \in JobIds : f[j] \in ViewRows(j)}
    /\ \E selected_jobs \in {{}, {1}} :
          user_data = [u \in UserIds |->
                         IF u = NumUsers /\ selected_jobs # {}
                         THEN [EmptyUserData EXCEPT !.has_selected_jobs = TRUE,
                                                    !.selected_jobs = selected_jobs,
                                                    !.current_page = 1]
                         ELSE EmptyUserData]
    /\ rendered = NoRender
    /\ update_id = 0
    /\ inflight = [s \in Slots |-> Free]
    /\ now = 0
    /\ reset_pending = FALSE
    /\ last_reset = NoReset
    /\ shown = NoShow

\* the numbers of photos a started job of InitGrid has
GridSizes == {1} \cup (photos_per_page..MaxGridPhotos)

\* a table whose jobs are unassigned or started today with photos of today,
\* one page of them or more
InitGrid ==
    /\ \E n \in [JobIds -> {0} \cup GridSizes] :
          jobs = [j \in JobIds |->
                    IF n[j] = 0
                    THEN [status |-> "pending", assigned_to |-> NULL,
                          start_time |-> NULL, finish_time |-> NULL,
                          scheduled_date |-> NULL, photos |-> << >>, notes |-> << >>]
                    ELSE [status |-> "in_progress", assigned_to |-> 1,
                          start_time |-> 0, finish_time |-> NULL,
                          scheduled_date |-> NULL, photos |-> StoredPhotos(j, n[j]),
                          notes |-> << >>]]
    /\ user_data = [u \in UserIds |-> EmptyUserData]
    /\ rendered = NoRender
    /\ update_id = 0
    /\ inflight = [s \in Slots |-> Free]
    /\ now = 0
    /\ reset_pending = FALSE
    /\ last_reset = NoReset
    /\ shown = NoShow

\* a table in use whose jobs are assigned, the first of them started
InitSession ==
    /\ InitView
    /\ jobs[1].status = "in_progress"
    /\ \A job_id \in JobIds : jobs[job_id].assigned_to = 1

(* ------------------------------ clock --------------------------------- *)

\* time passes; the job queue marks the daily reset due at its time of day
Tick ==
    /\ now < MaxTime
    /\ now' = now + 1
    /\ reset_pending' = (reset_pending \/ (now + 1) % DayLen = ResetTick)
    /\ Silent
    /\ UNCHANGED <<jobs, user_data, inflight, update_id, last_reset>>

(* ------------------------- callback_handler --------------------------- *)

\* a callback query arrives: its data is read and the query is answered
callback_handler(u, family, arg) ==
    /\ Receive
    /\ FreeSlots # {}
    /\ inflight' = [inflight EXCEPT ![NextSlot] =
                      [user |-> u, family |-> family, arg |-> arg,
                       pc |-> "dispatch", today |-> NULL, file_id |-> NULL]]
    /\ Silent
    /\ UNCHANGED <<jobs, user_data, now, reset_pending, last_reset>>

(* --------------------------- emp_view_jobs ---------------------------- *)

\* the rows emp_view_jobs selects for a user
EmpViewJobsRows(u) ==
    {j \in JobIds : jobs[j].assigned_to = u /\ jobs[j].status # "completed"}

\* the job list that follows a successful start or finish
emp_view_jobs(s) ==
    /\ inflight[s] # Free
    /\ inflight[s].pc = "emp_view_jobs"
    /\ Render(inflight[s].user,
              IF EmpViewJobsRows(inflight[s].user) = {} THEN "NoJobs" ELSE "JobList",
              "emp_view_jobs")
    /\ Done(s)
    /\ UNCHANGED <<jobs, user_data, update_id, now, reset_pending, last_reset>>

(* --------------------------- emp_start_job ---------------------------- *)

\* variant: a start that is never refused
StartRefused_Never(current_status) == FALSE

\* the status on which a start is refused
StartRefused(current_status) == current_status = "in_progress"

\* variant: a start that records no start_time
StartRow_NoTime(row, timestamp) == [row EXCEPT !.status = "in_progress"]

\* the UPDATE of a start
StartRow(row, timestamp) ==
    [row EXCEPT !.status = "in_progress", !.start_time = timestamp]

emp_start_job(s) ==
    /\ At(s, "start_job", "dispatch")
    /\ LET u == inflight[s].user
           job_id == inflight[s].arg
       IN  IF job_id \notin JobIds
           THEN /\ Render(u, "JOB_404", "emp_start_job") /\ Done(s) /\ UNCHANGED jobs
           ELSE IF StartRefused(jobs[job_id].status)
           THEN /\ Render(u, "JOB_IN_PROGRESS", "emp_start_job") /\ Done(s) /\ UNCHANGED jobs
           ELSE /\ jobs' = [jobs EXCEPT ![job_id] = StartRow(jobs[job_id], now)]
                /\ Render(u, "JobStarted", "emp_start_job")
                /\ Goto(s, "emp_view_jobs")
    /\ UNCHANGED <<user_data, update_id, now, reset_pending, last_reset>>

(* --------------------------- emp_finish_job --------------------------- *)

\* variant: a finish without the check for a completed job
FinishRefusedCompleted_Never(current_status) == FALSE

\* the status on which a finish is refused as already completed
FinishRefusedCompleted(current_status) == current_status = "completed"

\* variant: a finish without the check for a job not started
FinishRefusedNotStarted_Never(current_status) == FALSE

\* the status on which a finish is refused as not started
FinishRefusedNotStarted(current_status) == current_status # "in_progress"

\* the UPDATE of a finish
FinishRow(row, timestamp) ==
    [row EXCEPT !.status = "completed", !.finish_time = timestamp]

emp_finish_job(s) ==
    /\ At(s, "finish_job", "dispatch")
    /\ LET u == inflight[s].user
           job_id == inflight[s].arg
       IN  IF job_id \notin JobIds
           THEN /\ Render(u, "JOB_404", "emp_finish_job") /\ Done(s) /\ UNCHANGED jobs
           ELSE IF FinishRefusedCompleted(jobs[job_id].status)
           THEN /\ Render(u, "JOB_COMPLETED", "emp_finish_job") /\ Done(s) /\ UNCHANGED jobs
           ELSE IF FinishRefusedNotStarted(jobs[job_id].status)
           THEN /\ Render(u, "JOB_NOT_STARTED", "emp_finish_job") /\ Done(s) /\ UNCHANGED jobs
           ELSE /\ jobs' = [jobs EXCEPT ![job_id] = FinishRow(jobs[job_id], now)]
                /\ Render(u, "JobCompleted", "emp_finish_job")
                /\ Goto(s, "emp_view_jobs")
    /\ UNCHANGED <<user_data, update_id, now, reset_pending, last_reset>>

(* -------------------------- reset_jobs_daily -------------------------- *)

\* variant: the reset as it was before in-progress jobs were included
ResetSelects_CompletedOnly(row, today) ==
    /\ row.status = "completed"
    /\ (row.scheduled_date = NULL \/ row.scheduled_date = today)

\* variant: a reset of the jobs of every status
ResetSelects_AnyStatus(row, today) ==
    row.scheduled_date = NULL \/ row.scheduled_date = today

\* the WHERE clause of the daily reset
ResetSelects(row, today) ==
    /\ row.status \in {"completed", "in_progress"}
    /\ (row.scheduled_date = NULL \/ row.scheduled_date = today)

\* the SET clause of the daily reset
ResetRow(row) ==
    [row EXCEPT !.status = "pending", !.assigned_to = NULL,
                !.start_time = NULL, !.finish_time = NULL]

\* the UPDATE of a reset pass and the line it logs
ResetPass ==
    /\ jobs' = [j \in JobIds |->
                  IF ResetSelects(jobs[j], DateOf(now)) THEN ResetRow(jobs[j])
                                                        ELSE jobs[j]]
    /\ last_reset' = [date |-> DateOf(now),
                      jobs |-> {j \in JobIds : ResetSelects(jobs[j], DateOf(now))}]

\* the pass the job queue runs when the daily time has come
reset_jobs_daily ==
    /\ reset_pending
    /\ ResetPass
    /\ reset_pending' = FALSE
    /\ Silent
    /\ UNCHANGED <<user_data, inflight, update_id, now>>

\* the legacy entry point: the same pass, run whenever it is called
reset_completed_jobs ==
    /\ ResetPass
    /\ Silent
    /\ UNCHANGED <<user_data, inflight, update_id, now, reset_pending>>

(* ------------------------ assignment workflow ------------------------- *)

\* WHERE assigned_to IS NULL
UnassignedJobs == {j \in DOMAIN jobs : jobs[j].assigned_to = NULL}

\* ORDER BY id
RECURSIVE OrderById(_)
OrderById(ids) ==
    IF ids = {} THEN << >>
    ELSE LET first == CHOOSE i \in ids : \A k \in ids : i <= k
         IN  <<first>> \o OrderById(ids \ {first})

\* variant: an offset one row short of a full page
PageOffset_Overlap(page) == (page - 1) * (jobs_per_page - 1)

\* offset = (page - 1) * jobs_per_page
PageOffset(page) == (page - 1) * jobs_per_page

\* LIMIT jobs_per_page OFFSET offset: the ids of the rows of a page (SQLite
\* takes a negative OFFSET, that of a page below 1, as zero)
AssignPageRows(page) ==
    LET rows == OrderById(UnassignedJobs)
        offset == IF PageOffset(page) < 0 THEN 0 ELSE PageOffset(page)
        last == IF offset + jobs_per_page < Len(rows) THEN offset + jobs_per_page
                                                      ELSE Len(rows)
    IN  SubSeq(rows, offset + 1, last)

\* the screen build_director_assign_jobs_page makes for a page
build_director_assign_jobs_page(page) ==
    IF AssignPageRows(page) = << >> THEN "NoJobsAvailable" ELSE "AssignPage"

\* variant: "Next" on every page that has a row
NextOffered_AnyRow(rows) == Len(rows) > 0

\* len(jobs) == jobs_per_page
NextOffered(rows) == Len(rows) = jobs_per_page

\* the buttons under the rows of a page: the lone "Back" of the no-jobs screen,
\* else "Previous", "Back" and "Next" as the page number and the rows allow
nav_buttons(page) ==
    IF AssignPageRows(page) = << >> THEN {"Back"}
    ELSE {"Back"} \cup (IF page > 1 THEN {"Previous"} ELSE {})
                  \cup (IF NextOffered(AssignPageRows(page)) THEN {"Next"} ELSE {})

\* the message is edited to the page that build_director_assign_jobs_page made
RenderPage(u, page, h) ==
    /\ rendered' = [user |-> u, screen |-> build_director_assign_jobs_page(page),
                    by |-> h]
    /\ shown' = [photos |-> << >>, jobs |-> AssignPageRows(page),
                 buttons |-> nav_buttons(page), page |-> page]

\* context.user_data.get("current_page", 1)
CurrentPage(u) ==
    IF user_data[u].current_page = NULL THEN 1 ELSE user_data[u].current_page

\* variant: a toggle that only ever selects
ToggleJob_AddOnly(selected_jobs, job_id) == selected_jobs \cup {job_id}

\* membership of job_id is flipped
ToggleJob(selected_jobs, job_id) ==
    IF job_id \in selected_jobs THEN selected_jobs \ {job_id}
                                ELSE selected_jobs \cup {job_id}

handle_toggle_job(s) ==
    /\ At(s, "toggle_job", "dispatch")
    /\ LET u == inflight[s].user
           job_id == inflight[s].arg
       IN  /\ user_data' = [user_data EXCEPT
                              ![u].has_selected_jobs = TRUE,
                              ![u].selected_jobs = ToggleJob(SelectedJobs(u), job_id)]
           /\ RenderPage(u, CurrentPage(u), "handle_toggle_job")
    /\ Done(s)
    /\ UNCHANGED <<jobs, update_id, now, reset_pending, last_reset>>

\* variant: an entry that leaves the page cursor where it was
EnterWorkflow_KeepPage(session) ==
    [session EXCEPT !.has_selected_jobs = TRUE, !.selected_jobs = {}]

\* selected_jobs = set() and current_page = 1
EnterWorkflow(session) ==
    [session EXCEPT !.has_selected_jobs = TRUE, !.selected_jobs = {},
                    !.current_page = 1]

\* "Assign Jobs": the workflow is entered
director_assign_jobs_list(s) ==
    /\ At(s, "dir_assign_jobs_list", "dispatch")
    /\ LET u == inflight[s].user
       IN  /\ user_data' = [user_data EXCEPT ![u] = EnterWorkflow(user_data[u])]
           /\ RenderPage(u, 1, "director_assign_jobs_list")
    /\ Done(s)
    /\ UNCHANGED <<jobs, update_id, now, reset_pending, last_reset>>

\* variant: a page turn that starts the selection afresh
TurnPage_Fresh(session, page) ==
    [session EXCEPT !.current_page = page, !.selected_jobs = {}]

\* current_page = page
TurnPage(session, page) == [session EXCEPT !.current_page = page]

\* page_<n>: the branch of callback_handler that turns the page
callback_handler_page(s) ==
    /\ At(s, "page", "dispatch")
    /\ LET u == inflight[s].user
           page == inflight[s].arg
       IN  /\ user_data' = [user_data EXCEPT ![u] = TurnPage(user_data[u], page)]
           /\ RenderPage(u, page, "callback_handler_page")
    /\ Done(s)
    /\ UNCHANGED <<jobs, update_id, now, reset_pending, last_reset>>

\* "Back": the director home screen
director_dashboard(s) ==
    /\ At(s, "director_dashboard", "dispatch")
    /\ Render(inflight[s].user, "DirectorDashboard", "director_dashboard")
    /\ Done(s)
    /\ UNCHANGED <<jobs, user_data, update_id, now, reset_pending, last_reset>>

\* variant: only a session without the key counts as nothing selected
NothingSelected_AbsentOnly(session) == ~session.has_selected_jobs

\* "selected_jobs" not in user_data or not user_data["selected_jobs"]
NothingSelected(session) ==
    ~session.has_selected_jobs \/ session.selected_jobs = {}

\* "Assign Selected": the employees to choose from, if anything is selected
director_assign_jobs(s) ==
    /\ At(s, "assign_selected_jobs", "dispatch")
    /\ LET u == inflight[s].user
       IN  IF NothingSelected(user_data[u])
           THEN Render(u, "NoJobsSelected", "director_assign_jobs")
           ELSE Render(u, "SelectEmployee", "director_assign_jobs")
    /\ Done(s)
    /\ UNCHANGED <<jobs, user_data, update_id, now, reset_pending, last_reset>>

\* variant: an assignment that writes no assignee
AssignRow_NoAssignee(row, employee_id) == [row EXCEPT !.assigned_to = NULL]

\* variant: an assignment that also makes the job Pending again
AssignRow_AsNew(row, employee_id) ==
    [row EXCEPT !.assigned_to = employee_id, !.status = "pending"]

\* the UPDATE of one selected row
AssignRow(row, employee_id) == [row EXCEPT !.assigned_to = employee_id]

assign_jobs_to_employee(s) ==
    /\ At(s, "assign_to", "dispatch")
    /\ LET u == inflight[s].user
           employee_id == inflight[s].arg
           selected_jobs == SelectedJobs(u)
       IN  IF selected_jobs = {}
           THEN /\ Render(u, "NoJobsSelected", "assign_jobs_to_employee") /\ Done(s) /\ UNCHANGED jobs
           ELSE /\ jobs' = [j \in JobIds |->
                              IF j \in selected_jobs THEN AssignRow(jobs[j], employee_id)
                                                     ELSE jobs[j]]
                /\ Render(u, "JobsAssigned", "assign_jobs_to_employee")
                /\ Goto(s, "assigned")
    /\ UNCHANGED <<user_data, update_id, now, reset_pending, last_reset>>

\* after the confirmation: the selection is dropped and the dashboard shown
assign_jobs_finish(s) ==
    /\ At(s, "assign_to", "assigned")
    /\ user_data' = [user_data EXCEPT ![inflight[s].user].has_selected_jobs = FALSE,
                                      ![inflight[s].user].selected_jobs = {}]
    /\ Render(inflight[s].user, "DirectorDashboard", "assign_jobs_finish")
    /\ Done(s)
    /\ UNCHANGED <<jobs, update_id, now, reset_pending, last_reset>>

(* ------------------------------ photos -------------------------------- *)

\* "target_date in path" for a path photos/job_<job_id>_<date>_<file_id>.jpg:
\* a substring test, met by the date part and by a file_id that holds the text
PathHasDate(path, target_date) ==
    \/ path.date = target_date
    \/ DateInFileId(path.file_id) = target_date

filter_photos_by_date(photos, target_date) ==
    SelectSeq(photos, LAMBDA path : PathHasDate(path, target_date))

count_photos_for_date(photos, target_date) ==
    Len(filter_photos_by_date(photos, target_date))

emp_upload_photo(s) ==
    /\ At(s, "upload_photo", "dispatch")
    /\ LET u == inflight[s].user
           job_id == inflight[s].arg
       IN  IF job_id \notin JobIds
           THEN /\ Render(u, "Error", "emp_upload_photo") /\ UNCHANGED user_data
           ELSE IF count_photos_for_date(jobs[job_id].photos, DateOf(now)) >= PhotoLimit
           THEN /\ Render(u, "PhotoLimit", "emp_upload_photo") /\ UNCHANGED user_data
           ELSE /\ user_data' = [user_data EXCEPT ![u].awaiting_photo_for = job_id,
                                                  ![u].bulk_upload_mode = TRUE,
                                                  ![u].return_to_job_menu = TRUE]
                /\ Render(u, "BulkUpload", "emp_upload_photo")
    /\ Done(s)
    /\ UNCHANGED <<jobs, update_id, now, reset_pending, last_reset>>

\* photo messages received for a job and not yet stored
PhotosInFlight(job_id) ==
    Cardinality({s \in Slots : inflight[s] # Free /\ inflight[s].family = "photo"
                               /\ inflight[s].arg = job_id})

\* the job a photo of user u would go to has room for it within MaxPhotos
PhotoRoom(u) ==
    IF user_data[u].awaiting_photo_for = NULL THEN TRUE
    ELSE Len(jobs[user_data[u].awaiting_photo_for].photos)
           + PhotosInFlight(user_data[u].awaiting_photo_for) < MaxPhotos

\* variant: every photo goes to the first job
PhotoJob_First(session) == 1

\* job_id = context.user_data["awaiting_photo_for"]
PhotoJob(session) == session.awaiting_photo_for

\* a photo message arrives: refused without the flag, else its file is fetched
handle_photo(u, file_id) ==
    /\ Receive
    /\ IF user_data[u].awaiting_photo_for = NULL
       THEN /\ Render(u, "NoPhotoExpected", "handle_photo")
            /\ UNCHANGED inflight
       ELSE /\ FreeSlots # {}
            /\ LET job_id == PhotoJob(user_data[u])
               IN  inflight' = [inflight EXCEPT ![NextSlot] =
                                  [user |-> u, family |-> "photo", arg |-> job_id,
                                   pc |-> "get_file", today |-> NULL,
                                   file_id |-> file_id]]
            /\ Silent
    /\ UNCHANGED <<jobs, user_data, now, reset_pending, last_reset>>

\* the file name is made from today's date, then the bytes are downloaded
handle_photo_download(s) ==
    /\ At(s, "photo", "get_file")
    /\ inflight' = [inflight EXCEPT ![s].today = DateOf(now), ![s].pc = "download"]
    /\ Silent
    /\ UNCHANGED <<jobs, user_data, update_id, now, reset_pending, last_reset>>

\* variant: a store without the quota
QuotaExceeded_Never(today_count) == FALSE

\* today_count > 25, the new photo counted
QuotaExceeded(today_count) == today_count > PhotoLimit

\* verification, re-encoding and the append to the row
handle_photo_store(s, valid) ==
    /\ At(s, "photo", "download")
    /\ LET u == inflight[s].user
           job_id == inflight[s].arg
           today == inflight[s].today
           photo_path == [job_id |-> job_id, date |-> today,
                          file_id |-> inflight[s].file_id]
           new_photos == Append(jobs[job_id].photos, photo_path)
           today_count == Len(filter_photos_by_date(new_photos, today))
       IN  IF ~valid
           THEN /\ Render(u, "PhotoVerificationFailed", "handle_photo_store") /\ UNCHANGED jobs
           ELSE IF QuotaExceeded(today_count)
           THEN /\ Render(u, "PhotoLimit", "handle_photo_store") /\ UNCHANGED jobs
           ELSE /\ jobs' = [jobs EXCEPT ![job_id].photos = new_photos]
                /\ IF ~user_data[u].bulk_upload_mode
                   THEN Render(u, "PhotoUploaded", "handle_photo_store")
                   ELSE Silent
    /\ Done(s)
    /\ UNCHANGED <<user_data, update_id, now, reset_pending, last_reset>>

\* the statements of handle_photo that can raise
PhotoSteps == {"get_file", "download_as_bytearray", "save", "select", "update",
               "commit"}

\* a statement of handle_photo raises.  get_file is outside every try: the
\* exception leaves the handler.  A failed download or save is caught by the
\* outer except, a failed statement of the database by except sqlite3.Error,
\* which reports the failure and does not roll back: after a commit that
\* raised, SQLite has either undone the transaction or kept it open, and an
\* UPDATE kept in the open transaction is what every later statement of the
\* connection reads and what the next commit of any handler writes
handle_photo_raise(s, step, kept) ==
    /\ inflight[s] # Free
    /\ inflight[s].family = "photo"
    /\ LET u == inflight[s].user
           job_id == inflight[s].arg
           today == inflight[s].today
           photo_path == [job_id |-> job_id, date |-> today,
                          file_id |-> inflight[s].file_id]
           new_photos == Append(jobs[job_id].photos, photo_path)
           today_count == Len(filter_photos_by_date(new_photos, today))
       IN  IF step = "get_file"
           THEN /\ inflight[s].pc = "get_file" /\ Silent /\ UNCHANGED jobs
           ELSE IF step \in {"download_as_bytearray", "save"}
           THEN /\ inflight[s].pc = "download"
                /\ Render(u, "PhotoProcessingFailed", "handle_photo_raise")
                /\ UNCHANGED jobs
           ELSE IF step \in {"select", "update"}
           THEN /\ inflight[s].pc = "download"
                /\ Render(u, "DatabaseError", "handle_photo_raise")
                /\ UNCHANGED jobs
           ELSE /\ inflight[s].pc = "download"
                /\ ~QuotaExceeded(today_count)
                /\ Render(u, "DatabaseError", "handle_photo_raise")
                /\ jobs' = IF kept THEN [jobs EXCEPT ![job_id].photos = new_photos]
                                   ELSE jobs
    /\ Done(s)
    /\ UNCHANGED <<user_data, update_id, now, reset_pending, last_reset>>

(* ------------------------------ viewing ------------------------------- *)

\* the date whose photos the screens of a job show: the day of finish_time
\* when the row has one, else today
PhotoDate(row) ==
    IF row.finish_time # NULL THEN DateOf(row.finish_time) ELSE DateOf(now)

\* job_menu_<id>, and the end of finish_upload_<id>: the employee's menu of a
\* job with the count of today's photos (the row is read before the forecast
\* is awaited and rendered as it was read)
emp_job_menu(s) ==
    /\ \/ At(s, "job_menu", "dispatch")
       \/ At(s, "finish_upload", "emp_job_menu")
    /\ LET u == inflight[s].user
           job_id == inflight[s].arg
       IN  IF job_id \notin JobIds
           THEN Render(u, "JobNotFound", "emp_job_menu")
           ELSE RenderList(u, "JobMenu", "emp_job_menu",
                           filter_photos_by_date(jobs[job_id].photos, DateOf(now)),
                           << >>)
    /\ Done(s)
    /\ UNCHANGED <<jobs, user_data, update_id, now, reset_pending, last_reset>>

\* view_job_<id>, send_job_<id> and cancel_note_<id>: the director's view of a
\* job with the photos of its photo date
director_send_job(s) ==
    /\ \/ At(s, "view_job", "dispatch")
       \/ At(s, "send_job", "dispatch")
       \/ At(s, "cancel_note", "dispatch")
    /\ LET u == inflight[s].user
           job_id == inflight[s].arg
       IN  IF job_id \notin JobIds
           THEN Render(u, "JobNotFound", "director_send_job")
           ELSE RenderList(u, "JobDetails", "director_send_job",
                           filter_photos_by_date(jobs[job_id].photos,
                                                 PhotoDate(jobs[job_id])),
                           << >>)
    /\ Done(s)
    /\ UNCHANGED <<jobs, user_data, update_id, now, reset_pending, last_reset>>

\* view_photos_grid_<id>: the photos of the photo date of a job, in a grid
\* photo_paths[start_idx:end_idx], the photos of a page of the grid
GridPhotos(photo_paths, current_page) ==
    LET start_idx == current_page * photos_per_page
        end_idx == IF start_idx + photos_per_page < Len(photo_paths)
                   THEN start_idx + photos_per_page ELSE Len(photo_paths)
    IN  SubSeq(photo_paths, start_idx + 1, end_idx)

\* send_photo_grid with the session as the handler h has left it: nothing
\* without photos in the session, the photos of the page, or the error
\* screen when the page has none
send_photo_grid(u, session, h) ==
    IF session.job_photos = << >> THEN Silent
    ELSE IF GridPhotos(session.job_photos, session.current_page) = << >>
    THEN Render(u, "PhotoError", h)
    ELSE RenderList(u, "PhotoGrid", h,
                    GridPhotos(session.job_photos, session.current_page), << >>)

view_job_photos_grid(s) ==
    /\ At(s, "view_photos_grid", "dispatch")
    /\ LET u == inflight[s].user
           job_id == inflight[s].arg
           photo_date == PhotoDate(jobs[job_id])
           photo_paths == filter_photos_by_date(jobs[job_id].photos, photo_date)
       IN  IF job_id \notin JobIds
           THEN /\ Render(u, "JobNotFound", "view_job_photos_grid")
                /\ UNCHANGED user_data
           ELSE IF photo_paths = << >>
           THEN /\ Render(u, "NoPhotos", "view_job_photos_grid")
                /\ UNCHANGED user_data
           ELSE LET session == [user_data[u] EXCEPT !.job_photos = photo_paths,
                                                    !.job_id = job_id,
                                                    !.current_page = 0,
                                                    !.photo_date = photo_date]
                IN  /\ user_data' = WriteSession(u, session)
                    /\ send_photo_grid(u, session, "view_job_photos_grid")
    /\ Done(s)
    /\ UNCHANGED <<jobs, update_id, now, reset_pending, last_reset>>

\* new_page < 0 or new_page >= (len(photo_paths) // 10 + 1)
GridPageRefused(new_page, photo_paths) ==
    new_page < 0 \/ new_page >= Len(photo_paths) \div 10 + 1

\* photo_grid_<n>: a page of the grid is asked for
handle_photo_grid_navigation(s) ==
    /\ At(s, "photo_grid", "dispatch")
    /\ LET u == inflight[s].user
           new_page == inflight[s].arg
           photo_paths == user_data[u].job_photos
       IN  IF photo_paths = << >> \/ GridPageRefused(new_page, photo_paths)
           THEN /\ Render(u, "InvalidPage", "handle_photo_grid_navigation")
                /\ UNCHANGED user_data
           ELSE LET session == [user_data[u] EXCEPT !.current_page = new_page]
                IN  /\ user_data' = WriteSession(u, session)
                    /\ send_photo_grid(u, session, "handle_photo_grid_navigation")
    /\ Done(s)
    /\ UNCHANGED <<jobs, update_id, now, reset_pending, last_reset>>

\* the rows of the query: assigned_to = employee_id AND status = 'completed'
CompletedJobsOf(employee_id) ==
    {job_id \in DOMAIN jobs : /\ jobs[job_id].assigned_to = employee_id
                              /\ jobs[job_id].status = "completed"}

\* variant: the earliest finish first
FinishedNotBefore_Ascending(a, b) == jobs[a].finish_time <= jobs[b].finish_time

\* ORDER BY finish_time DESC: row a may come before row b
FinishedNotBefore(a, b) == jobs[a].finish_time >= jobs[b].finish_time

\* the orders the query may return the rows in: rows with the same
\* finish_time come in either order
CompletedOrders(ids) ==
    {q \in [1..Cardinality(ids) -> ids] :
        /\ \A i, k \in 1..Cardinality(ids) : q[i] = q[k] => i = k
        /\ \A i, k \in 1..Cardinality(ids) : i < k => FinishedNotBefore(q[i], q[k])}

\* LIMIT 20
CompletedPage(q) == SubSeq(q, 1, IF Len(q) < CompletedLimit THEN Len(q) ELSE CompletedLimit)

\* the photos counted on the cards and buttons of the listed rows: for each
\* row those of the day of its finish_time
RECURSIVE CompletedPhotos(_)
CompletedPhotos(q) ==
    IF q = << >> THEN << >>
    ELSE filter_photos_by_date(jobs[Head(q)].photos, DateOf(jobs[Head(q)].finish_time))
           \o CompletedPhotos(Tail(q))

\* view_completed_jobs_<employee>: the completed jobs of an employee
director_view_completed_jobs(s) ==
    /\ At(s, "view_completed_jobs", "dispatch")
    /\ LET u == inflight[s].user
           employee_id == inflight[s].arg
       IN  \E q \in CompletedOrders(CompletedJobsOf(employee_id)) :
              IF q = << >>
              THEN Render(u, "NoCompletedJobs", "director_view_completed_jobs")
              ELSE RenderList(u, "CompletedJobs", "director_view_completed_jobs",
                              CompletedPhotos(CompletedPage(q)), CompletedPage(q))
    /\ Done(s)
    /\ UNCHANGED <<jobs, user_data, update_id, now, reset_pending, last_reset>>

\* view_photos_<id>: the photos of the photo date of a job, one at a time
view_job_photos(s) ==
    /\ At(s, "view_photos", "dispatch")
    /\ LET u == inflight[s].user
           job_id == inflight[s].arg
           photo_date == PhotoDate(jobs[job_id])
           photo_paths == filter_photos_by_date(jobs[job_id].photos, photo_date)
           \* no row, no photos at all, or none of the photo date
           none == IF job_id \notin JobIds THEN TRUE ELSE photo_paths = << >>
       IN  IF none
           THEN /\ Render(u, "NoPhotos", "view_job_photos")
                /\ UNCHANGED user_data
           ELSE /\ user_data' = WriteSession(u,
                                   [user_data[u] EXCEPT !.current_photo_index = 0,
                                                        !.job_photos = photo_paths,
                                                        !.job_id = job_id,
                                                        !.photo_date = photo_date])
                /\ RenderList(u, "Photo", "view_job_photos", <<photo_paths[1]>>, << >>)
    /\ Done(s)
    /\ UNCHANGED <<jobs, update_id, now, reset_pending, last_reset>>

\* photo_nav_<n>: the viewer moves to photo n of the photos it holds
handle_photo_navigation(s) ==
    /\ At(s, "photo_nav", "dispatch")
    /\ LET u == inflight[s].user
           new_index == inflight[s].arg
           photo_paths == user_data[u].job_photos
       IN  IF photo_paths = << >> \/ new_index < 0 \/ new_index >= Len(photo_paths)
           THEN /\ Silent
                /\ UNCHANGED user_data
           ELSE /\ user_data' = WriteSession(u,
                                   [user_data[u] EXCEPT !.current_photo_index = new_index])
                /\ RenderList(u, "Photo", "handle_photo_navigation",
                              <<photo_paths[new_index + 1]>>, << >>)
    /\ Done(s)
    /\ UNCHANGED <<jobs, update_id, now, reset_pending, last_reset>>

(* ------------------------------ sessions ------------------------------ *)

\* emp_employee_dashboard: the employee home screen; the photo flag is dropped
emp_employee_dashboard(s) ==
    /\ At(s, "emp_employee_dashboard", "dispatch")
    /\ user_data' = WriteSession(inflight[s].user,
                                 [user_data[inflight[s].user]
                                    EXCEPT !.awaiting_photo_for = NULL])
    /\ Render(inflight[s].user, "EmployeeDashboard", "emp_employee_dashboard")
    /\ Done(s)
    /\ UNCHANGED <<jobs, update_id, now, reset_pending, last_reset>>

\* variant: only the bulk mode is left
FinishUpload_KeepAwaiting(session) == [session EXCEPT !.bulk_upload_mode = FALSE]

\* user_data.pop("awaiting_photo_for"), user_data.pop("bulk_upload_mode")
FinishUpload(session) ==
    [session EXCEPT !.awaiting_photo_for = NULL, !.bulk_upload_mode = FALSE]

\* finish_upload_<id>, "Done Uploading": the flags are dropped, today's photos
\* are counted and the query is answered; the job menu follows.  The count of
\* a job that does not exist raises after the flags are dropped, and
\* callback_handler renders its failure screen
finish_photo_upload(s) ==
    /\ At(s, "finish_upload", "dispatch")
    /\ LET u == inflight[s].user
           job_id == inflight[s].arg
       IN  /\ user_data' = WriteSession(u, FinishUpload(user_data[u]))
           /\ IF job_id \notin JobIds
              THEN Render(u, "ErrorOccurred", "finish_photo_upload") /\ Done(s)
              ELSE Silent /\ Goto(s, "emp_job_menu")
    /\ UNCHANGED <<jobs, update_id, now, reset_pending, last_reset>>

\* add_notes: a note for the selected jobs is awaited
director_add_notes(s) ==
    /\ At(s, "add_notes", "dispatch")
    /\ LET u == inflight[s].user
       IN  IF NothingSelected(user_data[u])
           THEN /\ Render(u, "NoJobsSelected", "director_add_notes")
                /\ UNCHANGED user_data
           ELSE /\ user_data' = WriteSession(u, [user_data[u] EXCEPT !.awaiting_notes = TRUE])
                /\ Render(u, "SendNotes", "director_add_notes")
    /\ Done(s)
    /\ UNCHANGED <<jobs, update_id, now, reset_pending, last_reset>>

\* edit_note_<id>: a note for the job is awaited
director_edit_note(s) ==
    /\ At(s, "edit_note", "dispatch")
    /\ LET u == inflight[s].user
           job_id == inflight[s].arg
       IN  IF job_id \notin JobIds
           THEN /\ Render(u, "JobNotFound", "director_edit_note")
                /\ UNCHANGED user_data
           ELSE /\ user_data' = WriteSession(u,
                                   [user_data[u] EXCEPT !.awaiting_note_for = job_id])
                /\ Render(u, "SendNote", "director_edit_note")
    /\ Done(s)
    /\ UNCHANGED <<jobs, update_id, now, reset_pending, last_reset>>

(* ------------------------------ router -------------------------------- *)

\* callback data is text; here it is the sequence of the words that "_"
\* separates ("start_job_1" is <<"start", "job", "1">>).  The numerals an
\* argument can be:
Numerals == <<"0", "1", "2", "3", "4", "5">>
NumberWords == {Numerals[n] : n \in DOMAIN Numerals}
\* int(word), for a word that is a numeral
ToInt(word) == (CHOOSE n \in DOMAIN Numerals : Numerals[n] = word) - 1
\* what stands for the argument of an update whose int(word) raises ValueError
BadArg == 0 - 2

\* the handlers dictionary: the data that select a screen as a whole
ScreenTable ==
    <<
      [data |-> <<"start">>, family |-> "start", handler |-> "start"],
      [data |-> <<"dev", "dashboard">>, family |-> "dev_dashboard", handler |-> "dev_dashboard"],
      [data |-> <<"dev", "employee", "dashboard">>, family |-> "dev_employee_dashboard", handler |-> "dev_employee_dashboard"],
      [data |-> <<"dev", "director", "dashboard">>, family |-> "dev_director_dashboard", handler |-> "dev_director_dashboard"],
      [data |-> <<"view", "andys", "jobs">>, family |-> "view_andys_jobs", handler |-> "director_view_andys_jobs"],
      [data |-> <<"view", "alexs", "jobs">>, family |-> "view_alexs_jobs", handler |-> "director_view_alexs_jobs"],
      [data |-> <<"calendar", "view">>, family |-> "calendar_view", handler |-> "director_calendar_view"],
      [data |-> <<"director", "dashboard">>, family |-> "director_dashboard", handler |-> "director_dashboard"],
      [data |-> <<"emp", "view", "jobs">>, family |-> "emp_view_jobs", handler |-> "emp_view_jobs"],
      [data |-> <<"emp", "employee", "dashboard">>, family |-> "emp_employee_dashboard", handler |-> "emp_employee_dashboard"],
      [data |-> <<"add", "notes">>, family |-> "add_notes", handler |-> "director_add_notes"],
      [data |-> <<"dir", "assign", "jobs">>, family |-> "assign_selected_jobs", handler |-> "director_assign_jobs"],
      [data |-> <<"assign", "selected", "jobs">>, family |-> "assign_selected_jobs", handler |-> "director_assign_jobs"]
    >>

\* the startswith tests in the order of the code, the tests that can never
\* be met included; underscore tells whether the tested text ends with "_"
PrefixChain ==
    <<
      [prefix |-> <<"refresh", "weather">>, family |-> "refresh_weather", handler |-> "refresh_weather",
       args |-> "jobs", underscore |-> TRUE],
      [prefix |-> <<"dir", "assign", "jobs", "list">>, family |-> "dir_assign_jobs_list", handler |-> "director_assign_jobs_list",
       args |-> "none", underscore |-> FALSE],
      [prefix |-> <<"add", "note">>, family |-> "add_note", handler |-> "prepare_add_note",
       args |-> "jobs", underscore |-> TRUE],
      [prefix |-> <<"view", "notes">>, family |-> "view_notes", handler |-> "view_job_with_notes",
       args |-> "jobs", underscore |-> TRUE],
      [prefix |-> <<"view", "photos", "grid">>, family |-> "view_photos_grid", handler |-> "view_job_photos_grid",
       args |-> "jobs", underscore |-> TRUE],
      [prefix |-> <<"photo", "grid">>, family |-> "photo_grid", handler |-> "handle_photo_grid_navigation",
       args |-> "indexes", underscore |-> TRUE],
      [prefix |-> <<"finish", "upload">>, family |-> "finish_upload", handler |-> "finish_photo_upload",
       args |-> "jobs", underscore |-> TRUE],
      [prefix |-> <<"view", "photos", "grid">>, family |-> "view_photos_grid", handler |-> "view_job_photos_grid",
       args |-> "jobs", underscore |-> TRUE],
      [prefix |-> <<"add", "note">>, family |-> "add_note", handler |-> "add_note",
       args |-> "jobs", underscore |-> TRUE],
      [prefix |-> <<"view", "notes">>, family |-> "view_notes", handler |-> "view_job_with_notes",
       args |-> "jobs", underscore |-> TRUE],
      [prefix |-> <<"add", "note">>, family |-> "add_note", handler |-> "prepare_add_note",
       args |-> "jobs", underscore |-> TRUE],
      [prefix |-> <<"add", "photo", "note">>, family |-> "add_photo_note", handler |-> "prepare_add_photo_note",
       args |-> "jobs", underscore |-> TRUE],
      [prefix |-> <<"add", "note">>, family |-> "add_note", handler |-> "add_note_to_job",
       args |-> "jobs", underscore |-> TRUE],
      [prefix |-> <<"start", "job", "with", "notes">>, family |-> "start_job_with_notes", handler |-> "start_job_with_notes",
       args |-> "jobs", underscore |-> TRUE],
      [prefix |-> <<"add", "work", "note">>, family |-> "add_work_note", handler |-> "add_work_note",
       args |-> "jobs", underscore |-> TRUE],
      [prefix |-> <<"job", "working">>, family |-> "job_working", handler |-> "job_working_view",
       args |-> "jobs", underscore |-> TRUE],
      [prefix |-> <<"select", "day">>, family |-> "select_day", handler |-> "director_select_day_for_assignment",
       args |-> "jobs", underscore |-> TRUE],
      [prefix |-> <<"assign", "day">>, family |-> "assign_day", handler |-> "director_assign_day_selected",
       args |-> "jobs", underscore |-> TRUE],
      [prefix |-> <<"toggle", "job">>, family |-> "toggle_job", handler |-> "handle_toggle_job",
       args |-> "jobs", underscore |-> TRUE],
      [prefix |-> <<"assign", "to">>, family |-> "assign_to", handler |-> "assign_jobs_to_employee",
       args |-> "users", underscore |-> TRUE],
      [prefix |-> <<"view", "completed", "jobs">>, family |-> "view_completed_jobs", handler |-> "director_view_completed_jobs",
       args |-> "users", underscore |-> TRUE],
      [prefix |-> <<"job", "menu">>, family |-> "job_menu", handler |-> "emp_job_menu",
       args |-> "jobs", underscore |-> TRUE],
      [prefix |-> <<"upload", "photo">>, family |-> "upload_photo", handler |-> "emp_upload_photo",
       args |-> "jobs", underscore |-> TRUE],
      [prefix |-> <<"site", "info">>, family |-> "site_info", handler |-> "emp_site_info",
       args |-> "jobs", underscore |-> TRUE],
      [prefix |-> <<"start", "job">>, family |-> "start_job", handler |-> "emp_start_job",
       args |-> "jobs", underscore |-> TRUE],
      [prefix |-> <<"finish", "job">>, family |-> "finish_job", handler |-> "emp_finish_job",
       args |-> "jobs", underscore |-> TRUE],
      [prefix |-> <<"map", "link">>, family |-> "map_link", handler |-> "emp_map_link",
       args |-> "jobs", underscore |-> TRUE],
      [prefix |-> <<"send", "job">>, family |-> "send_job", handler |-> "director_send_job",
       args |-> "jobs", underscore |-> TRUE],
      [prefix |-> <<"edit", "note">>, family |-> "edit_note", handler |-> "director_edit_note",
       args |-> "jobs", underscore |-> TRUE],
      [prefix |-> <<"cancel", "note">>, family |-> "cancel_note", handler |-> "director_cancel_note",
       args |-> "jobs", underscore |-> TRUE],
      [prefix |-> <<"view", "job">>, family |-> "view_job", handler |-> "director_send_job",
       args |-> "jobs", underscore |-> TRUE],
      [prefix |-> <<"view", "photos">>, family |-> "view_photos", handler |-> "view_job_photos",
       args |-> "jobs", underscore |-> TRUE],
      [prefix |-> <<"photo", "nav">>, family |-> "photo_nav", handler |-> "handle_photo_navigation",
       args |-> "indexes", underscore |-> TRUE],
      [prefix |-> <<"page">>, family |-> "page", handler |-> "callback_handler_page",
       args |-> "pages", underscore |-> TRUE]
    >>

\* the branches "noop" and else
NoopBranch == [family |-> "noop", handler |-> "pass"]
\* variant: data that meets no test is ignored
ElseBranch_Ignored(data) == NoopBranch
\* the else branch
ElseBranch(data) == [family |-> "unknown", handler |-> "callback_handler"]

\* data.startswith(text) for the text of a test: the words of the text are the
\* first words of data, and after a text that ends with "_" data has a
\* further word
StartsWith(data, branch) ==
    /\ IF branch.underscore THEN Len(data) > Len(branch.prefix)
                             ELSE Len(data) >= Len(branch.prefix)
    /\ SubSeq(data, 1, Len(branch.prefix)) = branch.prefix

\* variant: of the tests that data meets, the last one decides
Selected_Last(hits) == CHOOSE i \in hits : \A k \in hits : i >= k
\* if / elif: of the tests that data meets, the first one decides
Selected(hits) == CHOOSE i \in hits : \A k \in hits : i <= k

\* the branch of callback_handler that data selects
Route(data) ==
    LET screens == {i \in DOMAIN ScreenTable : ScreenTable[i].data = data}
        hits == {i \in DOMAIN PrefixChain : StartsWith(data, PrefixChain[i])}
    IN  IF screens # {} THEN ScreenTable[CHOOSE i \in screens : TRUE]
        ELSE IF hits # {} THEN PrefixChain[Selected(hits)]
        ELSE IF data = <<"noop">> THEN NoopBranch
        ELSE ElseBranch(data)

\* int(data.split("_")[-1]) where the selected branch or its handler takes it
RouteArg(data) ==
    LET branch == Route(data)
        word == data[Len(data)]
    IN  IF "underscore" \notin DOMAIN branch THEN NULL
        ELSE IF ~branch.underscore THEN NULL
        ELSE IF word \in NumberWords THEN ToInt(word) ELSE BadArg

\* the arguments the buttons of a family carry
ArgsOf(branch) ==
    CASE branch.args = "jobs" -> ArgIds
      [] branch.args = "users" -> UserIds
      [] branch.args = "pages" -> Pages
      [] branch.args = "indexes" -> 0..MaxPhotos
      [] OTHER -> {}

\* the data of the buttons, the same with an argument that is no number, and
\* data that no screen sends
Tokens ==
    {ScreenTable[i].data : i \in DOMAIN ScreenTable}
    \cup {PrefixChain[i].prefix : i \in {k \in DOMAIN PrefixChain : ~PrefixChain[k].underscore}}
    \cup UNION {{PrefixChain[i].prefix \o <<Numerals[n + 1]>> : n \in ArgsOf(PrefixChain[i])}
                  \cup {PrefixChain[i].prefix \o <<"x">>} :
                i \in {k \in DOMAIN PrefixChain : PrefixChain[k].underscore}}
    \cup {<<"noop">>, <<"view", "photos">>, <<"start", "1">>, <<"settings">>,
          <<"delete", "job", "1">>}

\* the branch and the argument of each of them
RouteTable ==
    [data \in Tokens |-> [family |-> Route(data).family, handler |-> Route(data).handler,
                          arg |-> RouteArg(data)]]

\* the families whose handler is outside this model: the screens that only
\* read the table, and the handlers of JobHandler
OtherFamilies ==
    {"start", "dev_dashboard", "dev_employee_dashboard", "dev_director_dashboard",
     "view_andys_jobs", "view_alexs_jobs", "calendar_view", "emp_view_jobs",
     "refresh_weather", "add_note", "view_notes", "photo_grid", "add_photo_note",
     "start_job_with_notes", "add_work_note", "job_working", "select_day",
     "assign_day", "site_info", "map_link"}

\* the families whose branch or handler begins with int(data.split("_")[-1])
IntFamilies ==
    {"refresh_weather", "view_notes", "view_photos_grid", "photo_grid",
     "finish_upload", "toggle_job", "assign_to", "view_completed_jobs", "job_menu",
     "upload_photo", "site_info", "start_job", "finish_job", "map_link", "send_job",
     "edit_note", "cancel_note", "view_job", "view_photos", "photo_nav", "page"}

\* a callback query with its data: the branch is a function of the data read
\* before the query is answered
callback_query(u, data) ==
    callback_handler(u, RouteTable[data].family, RouteTable[data].arg)

\* the argument of the update in slot s was a number, or its handler takes none
Parsed(s) == inflight[s].arg # BadArg

\* except Exception: the ValueError of int() ends in the failure screen
callback_handler_except(s) ==
    /\ inflight[s] # Free
    /\ inflight[s].pc = "dispatch"
    /\ inflight[s].family \in IntFamilies
    /\ ~Parsed(s)
    /\ Render(inflight[s].user, "ErrorOccurred", "callback_handler_except")
    /\ Done(s)
    /\ UNCHANGED <<jobs, user_data, update_id, now, reset_pending, last_reset>>

\* else: the screen of an action that is not supported
callback_handler_unknown(s) ==
    /\ At(s, "unknown", "dispatch")
    /\ Render(inflight[s].user, "UnknownAction", "callback_handler_unknown")
    /\ Done(s)
    /\ UNCHANGED <<jobs, user_data, update_id, now, reset_pending, last_reset>>

\* data == "noop": pass
callback_handler_noop(s) ==
    /\ At(s, "noop", "dispatch")
    /\ Silent
    /\ Done(s)
    /\ UNCHANGED <<jobs, user_data, update_id, now, reset_pending, last_reset>>

\* a handler outside this model renders its screen, or raises and
\* callback_handler renders the failure screen
other_handler(s, raised) ==
    /\ inflight[s] # Free
    /\ inflight[s].pc = "dispatch"
    /\ inflight[s].family \in OtherFamilies
    /\ inflight[s].family \in IntFamilies => Parsed(s)
    /\ IF raised
       THEN Render(inflight[s].user, "ErrorOccurred", "other_handler")
       ELSE Render(inflight[s].user, inflight[s].family, "other_handler")
    /\ Done(s)
    /\ UNCHANGED <<jobs, user_data, update_id, now, reset_pending, last_reset>>

(* ------------------------------- notes -------------------------------- *)

\* a note by a user is appended to a job
appendNote(u, job_id) ==
    /\ Receive
    /\ Len(jobs[job_id].notes) < MaxNotes
    /\ jobs' = [jobs EXCEPT ![job_id].notes = Append(@, u)]
    /\ Silent
    /\ UNCHANGED <<user_data, inflight, now, reset_pending, last_reset>>

(* ------------------------------- Next --------------------------------- *)

\* the application is built without concurrent_updates: an update is taken
\* only when the one before it has been handled to the end
Sequential == \A s \in Slots : inflight[s] = Free

\* the steps of the handlers, the clock and the job queue
Steps ==
    \/ Tick
    \/ \E s \in Slots : emp_start_job(s)
    \/ \E s \in Slots : emp_finish_job(s)
    \/ \E s \in Slots : emp_view_jobs(s)
    \/ \E s \in Slots : handle_toggle_job(s)
    \/ \E s \in Slots : assign_jobs_to_employee(s)
    \/ \E s \in Slots : assign_jobs_finish(s)
    \/ \E s \in Slots : emp_upload_photo(s)
    \/ \E s \in Slots : handle_photo_download(s)
    \/ \E s \in Slots, valid \in BOOLEAN : handle_photo_store(s, valid)
    \/ reset_jobs_daily

Next ==
    \/ Steps
    \/ /\ Sequential
       /\ \E u \in UserIds, family \in JobFamilies, arg \in ArgIds :
             callback_handler(u, family, arg)
    \/ /\ Sequential
       /\ \E u \in UserIds, employee_id \in UserIds :
             callback_handler(u, "assign_to", employee_id)
    \/ /\ Sequential
       /\ \E u \in UserIds, file_id \in FileIds :
             PhotoRoom(u) /\ handle_photo(u, file_id)
    \/ /\ Sequential
       /\ \E u \in UserIds, job_id \in JobIds : appendNote(u, job_id)

Spec == Init /\ [][Next]_vars

\* start and finish updates handled concurrently: a second update is taken
\* while the first is still being handled
NextConcurrent ==
    \/ Tick
    \/ \E u \in UserIds, family \in {"start_job", "finish_job"}, arg \in ArgIds :
          callback_handler(u, family, arg)
    \/ \E s \in Slots : emp_start_job(s)
    \/ \E s \in Slots : emp_finish_job(s)
    \/ \E s \in Slots : emp_view_jobs(s)
    \/ reset_jobs_daily

SpecConcurrent == Init /\ [][NextConcurrent]_vars

\* the job lifecycle with both entry points of the reset
NextReset ==
    \/ Tick
    \/ /\ Sequential
       /\ \E u \in UserIds, family \in {"start_job", "finish_job"}, arg \in ArgIds :
             callback_handler(u, family, arg)
    \/ \E s \in Slots : emp_start_job(s)
    \/ \E s \in Slots : emp_finish_job(s)
    \/ \E s \in Slots : emp_view_jobs(s)
    \/ reset_jobs_daily
    \/ reset_completed_jobs

SpecReset == Init /\ [][NextReset]_vars

\* the callbacks of the assignment workflow that carry no argument
WorkflowFamilies == {"dir_assign_jobs_list", "director_dashboard", "assign_selected_jobs"}

\* the assignment workflow of the directors
NextAssign ==
    \/ /\ Sequential
       /\ \E u \in UserIds, family \in WorkflowFamilies :
             callback_handler(u, family, NULL)
    \/ /\ Sequential
       /\ \E u \in UserIds, job_id \in ArgIds : callback_handler(u, "toggle_job", job_id)
    \/ /\ Sequential
       /\ \E u \in UserIds, page \in Pages : callback_handler(u, "page", page)
    \/ /\ Sequential
       /\ \E u \in UserIds, employee_id \in UserIds :
             callback_handler(u, "assign_to", employee_id)
    \/ \E s \in Slots : director_assign_jobs_list(s)
    \/ \E s \in Slots : handle_toggle_job(s)
    \/ \E s \in Slots : callback_handler_page(s)
    \/ \E s \in Slots : director_dashboard(s)
    \/ \E s \in Slots : director_assign_jobs(s)
    \/ \E s \in Slots : assign_jobs_to_employee(s)
    \/ \E s \in Slots : assign_jobs_finish(s)

SpecAssign == Init /\ [][NextAssign]_vars

\* a director enters the workflow and pages through a long table
NextPaging ==
    \/ /\ Sequential
       /\ \E u \in UserIds : callback_handler(u, "dir_assign_jobs_list", NULL)
    \/ /\ Sequential
       /\ \E u \in UserIds, page \in Pages : callback_handler(u, "page", page)
    \/ \E s \in Slots : director_assign_jobs_list(s)
    \/ \E s \in Slots : callback_handler_page(s)

SpecPaging == InitPaging /\ [][NextPaging]_vars

\* photo uploads, with file ids of every kind, over more than one day, every
\* statement of the ingestion succeeding or raising
NextPhotos ==
    \/ Tick
    \/ /\ Sequential
       /\ \E u \in UserIds, job_id \in ArgIds : callback_handler(u, "upload_photo", job_id)
    \/ /\ Sequential
       /\ \E u \in UserIds, file_id \in FileIds \cup DatedFileIds :
             handle_photo(u, file_id)
    \/ \E s \in Slots : emp_upload_photo(s)
    \/ \E s \in Slots : handle_photo_download(s)
    \/ \E s \in Slots, valid \in BOOLEAN : handle_photo_store(s, valid)
    \/ \E s \in Slots, step \in PhotoSteps, kept \in BOOLEAN :
          handle_photo_raise(s, step, kept)

SpecPhotos == InitPhotos /\ [][NextPhotos]_vars

\* the screens that show or count the photos of a job, and the listing of the
\* completed jobs of an employee, over more than one day
ViewFamilies == {"job_menu", "view_job", "view_photos_grid", "start_job", "finish_job"}

NextView ==
    \/ Tick
    \/ /\ Sequential
       /\ \E u \in UserIds, family \in ViewFamilies, arg \in ArgIds :
             callback_handler(u, family, arg)
    \/ /\ Sequential
       /\ \E u \in UserIds, employee_id \in UserIds :
             callback_handler(u, "view_completed_jobs", employee_id)
    \/ /\ Sequential
       /\ \E u \in UserIds, employee_id \in UserIds :
             callback_handler(u, "assign_to", employee_id)
    \/ \E s \in Slots : emp_job_menu(s)
    \/ \E s \in Slots : director_send_job(s)
    \/ \E s \in Slots : view_job_photos_grid(s)
    \/ \E s \in Slots : director_view_completed_jobs(s)
    \/ \E s \in Slots : emp_start_job(s)
    \/ \E s \in Slots : emp_finish_job(s)
    \/ \E s \in Slots : emp_view_jobs(s)
    \/ \E s \in Slots : assign_jobs_to_employee(s)
    \/ \E s \in Slots : assign_jobs_finish(s)

SpecView == InitView /\ [][NextView]_vars

\* the flows that leave something in the session of a user: the photo upload,
\* the notes, the selection and the photo viewer
SessionFamilies == {"upload_photo", "finish_upload", "job_menu", "start_job",
                    "finish_job", "edit_note", "cancel_note", "toggle_job",
                    "view_photos"}

\* the callbacks of these flows that carry no argument
SessionScreens == {"emp_employee_dashboard", "add_notes"}

\* the photos a photo_nav_<n> button can ask for
PhotoIndexes == 0..MaxPhotos

NextSession ==
    \/ /\ Sequential
       /\ \E u \in UserIds, family \in SessionFamilies, arg \in ArgIds :
             callback_handler(u, family, arg)
    \/ /\ Sequential
       /\ \E u \in UserIds, family \in SessionScreens :
             callback_handler(u, family, NULL)
    \/ /\ Sequential
       /\ \E u \in UserIds, new_index \in PhotoIndexes :
             callback_handler(u, "photo_nav", new_index)
    \/ /\ Sequential
       /\ \E u \in UserIds, file_id \in FileIds : handle_photo(u, file_id)
    \/ \E s \in Slots : emp_upload_photo(s)
    \/ \E s \in Slots : finish_photo_upload(s)
    \/ \E s \in Slots : emp_job_menu(s)
    \/ \E s \in Slots : emp_employee_dashboard(s)
    \/ \E s \in Slots : emp_start_job(s)
    \/ \E s \in Slots : emp_finish_job(s)
    \/ \E s \in Slots : emp_view_jobs(s)
    \/ \E s \in Slots : director_edit_note(s)
    \/ \E s \in Slots : director_add_notes(s)
    \/ \E s \in Slots : director_send_job(s)
    \/ \E s \in Slots : handle_toggle_job(s)
    \/ \E s \in Slots : view_job_photos(s)
    \/ \E s \in Slots : handle_photo_navigation(s)
    \/ \E s \in Slots : handle_photo_download(s)
    \/ \E s \in Slots, valid \in BOOLEAN : handle_photo_store(s, valid)

SpecSession == InitSession /\ [][NextSession]_vars

\* the router with every handler of the model behind it, for MaxRouted
\* callback queries
NextRouter ==
    \/ /\ Sequential
       /\ update_id < MaxRouted
       /\ \E u \in UserIds, data \in Tokens : callback_query(u, data)
    \/ \E s \in Slots : callback_handler_except(s)
    \/ \E s \in Slots : callback_handler_unknown(s)
    \/ \E s \in Slots : callback_handler_noop(s)
    \/ \E s \in Slots, raised \in BOOLEAN : other_handler(s, raised)
    \/ \E s \in Slots : Parsed(s) /\ emp_start_job(s)
    \/ \E s \in Slots : Parsed(s) /\ emp_finish_job(s)
    \/ \E s \in Slots : emp_view_jobs(s)
    \/ \E s \in Slots : Parsed(s) /\ emp_job_menu(s)
    \/ \E s \in Slots : Parsed(s) /\ emp_upload_photo(s)
    \/ \E s \in Slots : Parsed(s) /\ finish_photo_upload(s)
    \/ \E s \in Slots : emp_employee_dashboard(s)
    \/ \E s \in Slots : Parsed(s) /\ handle_toggle_job(s)
    \/ \E s \in Slots : director_assign_jobs_list(s)
    \/ \E s \in Slots : Parsed(s) /\ callback_handler_page(s)
    \/ \E s \in Slots : director_dashboard(s)
    \/ \E s \in Slots : director_assign_jobs(s)
    \/ \E s \in Slots : Parsed(s) /\ assign_jobs_to_employee(s)
    \/ \E s \in Slots : assign_jobs_finish(s)
    \/ \E s \in Slots : director_add_notes(s)
    \/ \E s \in Slots : Parsed(s) /\ director_edit_note(s)
    \/ \E s \in Slots : Parsed(s) /\ director_send_job(s)
    \/ \E s \in Slots : Parsed(s) /\ director_view_completed_jobs(s)
    \/ \E s \in Slots : Parsed(s) /\ view_job_photos_grid(s)
    \/ \E s \in Slots : Parsed(s) /\ view_job_photos(s)
    \/ \E s \in Slots : Parsed(s) /\ handle_photo_navigation(s)

SpecRouter == InitSession /\ [][NextRouter]_vars

\* the pages a photo_grid_<n> button can ask for
GridPages == 0..MaxGridPage

\* a director looks at the photos of jobs, a grid page at a time, and selects
\* jobs for assignment
NextGrid ==
    \/ /\ Sequential
       /\ \E u \in UserIds, job_id \in ArgIds :
             callback_handler(u, "view_photos_grid", job_id)
    \/ /\ Sequential
       /\ \E u \in UserIds, new_page \in GridPages :
             callback_handler(u, "photo_grid", new_page)
    \/ /\ Sequential
       /\ \E u \in UserIds : callback_handler(u, "dir_assign_jobs_list", NULL)
    \/ /\ Sequential
       /\ \E u \in UserIds, job_id \in JobIds : callback_handler(u, "toggle_job", job_id)
    \/ /\ Sequential
       /\ \E u \in UserIds, page \in Pages : callback_handler(u, "page", page)
    \/ \E s \in Slots : view_job_photos_grid(s)
    \/ \E s \in Slots : handle_photo_grid_navigation(s)
    \/ \E s \in Slots : director_assign_jobs_list(s)
    \/ \E s \in Slots : handle_toggle_job(s)
    \/ \E s \in Slots : callback_handler_page(s)

SpecGrid == InitGrid /\ [][NextGrid]_vars

(* ------------------------- job state machine -------------------------- *)

\* the job and the user of the update held in slot s
JobOf(s) == inflight[s].arg
UserOf(s) == inflight[s].user

\* slot s holds an update of the family for a job that exists, not yet handled
Dispatching(s, family) == At(s, family, "dispatch") /\ JobOf(s) \in JobIds

\* C1: a start of a Pending job makes it InProgress, records start_time = now
\* and is confirmed; a start of a job that is InProgress (the second of two
\* starts in a row) is refused as already in progress and leaves the row,
\* its status and start_time included, as it was.
C1_StartTwice ==
    [][\A s \in Slots :
          (Dispatching(s, "start_job") /\ emp_start_job(s)) =>
             /\ jobs[JobOf(s)].status = "pending" =>
                   /\ jobs'[JobOf(s)].status = "in_progress"
                   /\ jobs'[JobOf(s)].start_time = now
                   /\ rendered' =
                      [user |-> UserOf(s), screen |-> "JobStarted", by |-> "emp_start_job"]
             /\ jobs[JobOf(s)].status = "in_progress" =>
                   /\ jobs' = jobs
                   /\ rendered' =
                      [user |-> UserOf(s), screen |-> "JOB_IN_PROGRESS", by |-> "emp_start_job"]
      ]_vars

\* a start has just been refused and a job that was started is InProgress
C1_Witness ==
    /\ rendered.screen = "JOB_IN_PROGRESS"
    /\ \E j \in JobIds : jobs[j].status = "in_progress" /\ jobs[j].start_time # NULL

\* C2: a start of a Completed job is refused as already completed and leaves
\* the row (status, start_time, finish_time) as it was.
C2_StartOnCompleted ==
    [][\A s \in Slots :
          (/\ Dispatching(s, "start_job")
           /\ jobs[JobOf(s)].status = "completed"
           /\ emp_start_job(s)) =>
             /\ jobs' = jobs
             /\ rendered' =
                [user |-> UserOf(s), screen |-> "JOB_COMPLETED", by |-> "emp_start_job"]
      ]_vars

\* C3: a finish of an InProgress job makes it Completed, records
\* finish_time = now and is confirmed; a finish of a Completed job is refused
\* as already completed and leaves the row as it was.
C3_Finish ==
    [][\A s \in Slots :
          (Dispatching(s, "finish_job") /\ emp_finish_job(s)) =>
             /\ jobs[JobOf(s)].status = "in_progress" =>
                   /\ jobs'[JobOf(s)].status = "completed"
                   /\ jobs'[JobOf(s)].finish_time = now
                   /\ rendered' =
                      [user |-> UserOf(s), screen |-> "JobCompleted", by |-> "emp_finish_job"]
             /\ jobs[JobOf(s)].status = "completed" =>
                   /\ jobs' = jobs
                   /\ rendered' =
                      [user |-> UserOf(s), screen |-> "JOB_COMPLETED", by |-> "emp_finish_job"]
      ]_vars

\* a finish has just been refused as already completed
C3_Witness ==
    /\ rendered.screen = "JOB_COMPLETED"
    /\ \E j \in JobIds : jobs[j].status = "completed" /\ jobs[j].finish_time # NULL

\* C4: a finish of a job that is still Pending is refused as not started; the
\* job stays Pending and its finish_time stays unset.
C4_FinishBeforeStart ==
    [][\A s \in Slots :
          (/\ Dispatching(s, "finish_job")
           /\ jobs[JobOf(s)].status = "pending"
           /\ emp_finish_job(s)) =>
             /\ jobs' = jobs
             /\ jobs'[JobOf(s)].status = "pending"
             /\ jobs'[JobOf(s)].finish_time = NULL
             /\ rendered' =
                [user |-> UserOf(s), screen |-> "JOB_NOT_STARTED", by |-> "emp_finish_job"]
      ]_vars

\* a finish has just been refused as not started and a job is Pending
C4_Witness ==
    /\ rendered.screen = "JOB_NOT_STARTED"
    /\ \E j \in JobIds : jobs[j].status = "pending" /\ jobs[j].finish_time = NULL

\* C5: in every reachable state an InProgress job has a start_time, and a
\* Completed job has a start_time and a finish_time that is not before it.
C5_StatusImpliesTimes ==
    \A j \in JobIds :
       /\ jobs[j].status = "in_progress" => jobs[j].start_time # NULL
       /\ jobs[j].status = "completed" =>
             /\ jobs[j].start_time # NULL
             /\ jobs[j].finish_time # NULL
             /\ jobs[j].finish_time >= jobs[j].start_time

\* a job was started at one tick and finished at a later one
C5_Witness ==
    \E j \in JobIds :
       /\ jobs[j].status = "completed"
       /\ jobs[j].start_time # NULL
       /\ jobs[j].finish_time > jobs[j].start_time

\* C6: in every reachable state a Pending job has neither time, an InProgress
\* job has a start_time and no finish_time, a Completed job has both.
C6_TimesMatchStatus ==
    \A j \in JobIds :
       /\ jobs[j].status = "pending" =>
             jobs[j].start_time = NULL /\ jobs[j].finish_time = NULL
       /\ jobs[j].status = "in_progress" =>
             jobs[j].start_time # NULL /\ jobs[j].finish_time = NULL
       /\ jobs[j].status = "completed" =>
             jobs[j].start_time # NULL /\ jobs[j].finish_time # NULL

\* slot s holds a start or finish that has succeeded and not yet shown the list
Succeeded(s, family) ==
    /\ At(s, family, "emp_view_jobs")
    /\ JobOf(s) \in JobIds

\* C7: of two starts of one Pending job that are in flight together, the one
\* handled first makes the job InProgress and writes start_time, and leaves
\* the other still to be handled; the other, handled while the job is
\* InProgress, is refused as already in progress and writes nothing.  The
\* same for two finishes of one InProgress job and finish_time.
C7_RaceOneWinner ==
    [][\A s1, s2 \in Slots :
          /\ (/\ s1 # s2
              /\ Dispatching(s1, "start_job") /\ Dispatching(s2, "start_job")
              /\ JobOf(s1) = JobOf(s2)
              /\ jobs[JobOf(s1)].status = "pending"
              /\ emp_start_job(s1)) =>
                /\ jobs'[JobOf(s1)].status = "in_progress"
                /\ jobs'[JobOf(s1)].start_time = now
                /\ inflight'[s2] = inflight[s2]
          /\ (/\ s1 # s2
              /\ Succeeded(s1, "start_job") /\ Dispatching(s2, "start_job")
              /\ JobOf(s1) = JobOf(s2)
              /\ jobs[JobOf(s2)].status = "in_progress"
              /\ emp_start_job(s2)) =>
                /\ jobs' = jobs
                /\ rendered' =
                   [user |-> UserOf(s2), screen |-> "JOB_IN_PROGRESS", by |-> "emp_start_job"]
          /\ (/\ s1 # s2
              /\ Dispatching(s1, "finish_job") /\ Dispatching(s2, "finish_job")
              /\ JobOf(s1) = JobOf(s2)
              /\ jobs[JobOf(s1)].status = "in_progress"
              /\ emp_finish_job(s1)) =>
                /\ jobs'[JobOf(s1)].status = "completed"
                /\ jobs'[JobOf(s1)].finish_time = now
                /\ inflight'[s2] = inflight[s2]
          /\ (/\ s1 # s2
              /\ Succeeded(s1, "finish_job") /\ Dispatching(s2, "finish_job")
              /\ JobOf(s1) = JobOf(s2)
              /\ jobs[JobOf(s2)].status = "completed"
              /\ emp_finish_job(s2)) =>
                /\ jobs' = jobs
                /\ rendered' =
                   [user |-> UserOf(s2), screen |-> "JOB_COMPLETED", by |-> "emp_finish_job"]
      ]_vars

\* the second of two racing starts has just been refused while the first,
\* which succeeded, is still in flight
C7_Witness ==
    /\ rendered.screen = "JOB_IN_PROGRESS"
    /\ \E s \in Slots :
          /\ Succeeded(s, "start_job")
          /\ jobs[JobOf(s)].status = "in_progress"
          /\ jobs[JobOf(s)].start_time # NULL

\* C8: a start or a finish from a user the job is not assigned to (the job
\* unassigned, or assigned to somebody else) does not change the job.
C8_OnlyAssignee ==
    [][\A s \in Slots :
          (/\ Dispatching(s, "start_job") \/ Dispatching(s, "finish_job")
           /\ jobs[JobOf(s)].assigned_to # UserOf(s)
           /\ emp_start_job(s) \/ emp_finish_job(s)) =>
             jobs'[JobOf(s)] = jobs[JobOf(s)]
      ]_vars

\* C9: a step that takes a job from Completed to Pending is a step of the
\* daily reset: no start, finish, assignment, note or photo does it.
C9_OnlyResetReverts ==
    [][(\E j \in JobIds : jobs[j].status = "completed" /\ jobs'[j].status = "pending")
          => reset_jobs_daily
      ]_vars

\* a Completed job has just been assigned and is still Completed
C9_Witness ==
    /\ rendered.screen = "JobsAssigned"
    /\ \E j \in JobIds :
          /\ j \in SelectedJobs(rendered.user)
          /\ jobs[j].status = "completed"
          /\ jobs[j].assigned_to # NULL

\* C10: a run of the daily reset makes every job that is InProgress or
\* Completed and is scheduled for no date or for today Pending, unassigned,
\* with neither time; a job that is InProgress or Completed and scheduled for
\* another day is left as it was.
C10_ResetEffect ==
    [][reset_jobs_daily =>
          \A j \in JobIds :
             jobs[j].status \in {"in_progress", "completed"} =>
                IF jobs[j].scheduled_date = NULL \/ jobs[j].scheduled_date = DateOf(now)
                THEN /\ jobs'[j].status = "pending"
                     /\ jobs'[j].assigned_to = NULL
                     /\ jobs'[j].start_time = NULL
                     /\ jobs'[j].finish_time = NULL
                ELSE jobs'[j] = jobs[j]
      ]_vars

\* the reset has run: a job started just before it is Pending again, while a
\* job finished on the day before, scheduled for that day, is still Completed
C10_Witness ==
    /\ ~reset_pending
    /\ \E s \in Slots :
          /\ Succeeded(s, "start_job")
          /\ jobs[JobOf(s)].status = "pending"
          /\ jobs[JobOf(s)].assigned_to = NULL
          /\ jobs[JobOf(s)].start_time = NULL
    /\ \E j \in JobIds :
          /\ jobs[j].status = "completed"
          /\ jobs[j].scheduled_date # NULL
          /\ jobs[j].scheduled_date # DateOf(now)

(* ---------------------------- daily reset ----------------------------- *)

\* C11: a job that a reset pass reverted and that was started again on the
\* same day is left as it is by every further pass of that day, whether the
\* pass is the scheduled one or comes through the legacy entry point.
C11_NoDoubleReset ==
    [][\A j \in JobIds :
          (/\ last_reset.date = DateOf(now)
           /\ j \in last_reset.jobs
           /\ jobs[j].status = "in_progress"
           /\ reset_jobs_daily \/ reset_completed_jobs) =>
             jobs'[j] = jobs[j]
      ]_vars

(* ------------------------ assignment workflow ------------------------- *)

\* the selection of user u after the step
SelectedJobsAfter(u) ==
    IF user_data'[u].has_selected_jobs THEN user_data'[u].selected_jobs ELSE {}

\* C12: a toggle stores the selection with the membership of its job id
\* flipped, and a toggle of the same job id on what it stored gives back the
\* selection it started from: two toggles of one job id in a row leave the
\* selection as it was, whatever the selection and the job id.
C12_ToggleTwice ==
    [][\A s \in Slots :
          (At(s, "toggle_job", "dispatch") /\ handle_toggle_job(s)) =>
             /\ SelectedJobsAfter(UserOf(s)) = ToggleJob(SelectedJobs(UserOf(s)), JobOf(s))
             /\ ToggleJob(SelectedJobsAfter(UserOf(s)), JobOf(s)) = SelectedJobs(UserOf(s))
      ]_vars

\* a toggle has just taken out of the selection the job an earlier toggle
\* put in: the selection is there and empty again
C12_Witness ==
    /\ rendered.by = "handle_toggle_job"
    /\ user_data[rendered.user].has_selected_jobs
    /\ user_data[rendered.user].selected_jobs = {}

\* C13: a page action sets the page cursor to the page asked for and changes
\* nothing else: the selection of every user and every job are as before.
C13_PageKeepsSelection ==
    [][\A s \in Slots :
          (At(s, "page", "dispatch") /\ callback_handler_page(s)) =>
             /\ user_data' = [user_data EXCEPT ![UserOf(s)].current_page = inflight[s].arg]
             /\ SelectedJobsAfter(UserOf(s)) = SelectedJobs(UserOf(s))
             /\ jobs' = jobs
      ]_vars

\* the director is back on page 1 by a page action and the selection made
\* before is still there
C13_Witness ==
    /\ rendered.by = "callback_handler_page"
    /\ user_data[rendered.user].current_page = 1
    /\ SelectedJobs(rendered.user) # {}

\* C14: entering the workflow leaves the selection present and empty and the
\* page cursor at 1, whatever the selection and the cursor were.
C14_EnterClears ==
    [][\A s \in Slots :
          (At(s, "dir_assign_jobs_list", "dispatch") /\ director_assign_jobs_list(s)) =>
             /\ user_data'[UserOf(s)].has_selected_jobs
             /\ user_data'[UserOf(s)].selected_jobs = {}
             /\ user_data'[UserOf(s)].current_page = 1
      ]_vars

\* the workflow has just been entered: nothing is selected, the cursor is at 1
C14_Witness ==
    /\ rendered.by = "director_assign_jobs_list"
    /\ SelectedJobs(rendered.user) = {}
    /\ user_data[rendered.user].current_page = 1

\* C15: "Assign Selected" with nothing selected (no selection, or an empty
\* one) shows the error and not the employees to choose from; an assign-to
\* action with nothing selected shows the error and changes no job.
C15_EmptySelectionGuard ==
    [][\A s \in Slots :
          /\ (/\ At(s, "assign_selected_jobs", "dispatch")
              /\ SelectedJobs(UserOf(s)) = {}
              /\ director_assign_jobs(s)) =>
                /\ rendered' = [user |-> UserOf(s), screen |-> "NoJobsSelected",
                                by |-> "director_assign_jobs"]
                /\ jobs' = jobs
                /\ user_data' = user_data
          /\ (/\ At(s, "assign_to", "dispatch")
              /\ SelectedJobs(UserOf(s)) = {}
              /\ assign_jobs_to_employee(s)) =>
                /\ rendered' = [user |-> UserOf(s), screen |-> "NoJobsSelected",
                                by |-> "assign_jobs_to_employee"]
                /\ jobs' = jobs
      ]_vars

\* "Assign Selected" has just been refused on a selection that is there and
\* empty
C15_Witness ==
    /\ rendered.by = "director_assign_jobs"
    /\ rendered.screen = "NoJobsSelected"
    /\ user_data[rendered.user].has_selected_jobs
    /\ user_data[rendered.user].selected_jobs = {}

\* C16: an assign-to action with a non-empty selection gives every selected
\* job that exists the employee as assignee, changes no other job, passes over
\* selected ids that no row has and confirms; the step that ends the handler
\* leaves the director with no selection.
C16_AssignAll ==
    [][\A s \in Slots :
          /\ (/\ At(s, "assign_to", "dispatch")
              /\ SelectedJobs(UserOf(s)) # {}
              /\ assign_jobs_to_employee(s)) =>
                /\ \A j \in JobIds :
                      IF j \in SelectedJobs(UserOf(s))
                      THEN jobs'[j] = [jobs[j] EXCEPT !.assigned_to = inflight[s].arg]
                      ELSE jobs'[j] = jobs[j]
                /\ rendered' = [user |-> UserOf(s), screen |-> "JobsAssigned",
                                by |-> "assign_jobs_to_employee"]
                /\ inflight'[s].pc = "assigned"
          /\ (At(s, "assign_to", "assigned") /\ assign_jobs_finish(s)) =>
                SelectedJobsAfter(UserOf(s)) = {}
      ]_vars

\* a selection of a job and of an id that no row has was just assigned: the
\* job has the employee, the other id was passed over
C16_Witness ==
    /\ rendered.by = "assign_jobs_to_employee"
    /\ rendered.screen = "JobsAssigned"
    /\ MissingJobId \in SelectedJobs(rendered.user)
    /\ \E s \in Slots, j \in JobIds :
          /\ At(s, "assign_to", "assigned")
          /\ j \in SelectedJobs(rendered.user)
          /\ jobs[j].assigned_to = inflight[s].arg

\* C17: "Back" to the director home screen leaves the director with no
\* selected job ids.
C17_BackClears ==
    [][\A s \in Slots :
          (At(s, "director_dashboard", "dispatch") /\ director_dashboard(s)) =>
             SelectedJobsAfter(UserOf(s)) = {}
      ]_vars

\* the rows of pages 1..page, one page after the other
RECURSIVE RowsUpTo(_)
RowsUpTo(page) ==
    IF page = 0 THEN << >> ELSE RowsUpTo(page - 1) \o AssignPageRows(page)

\* the number of the page after the last page that has rows
PastLastPage == Cardinality(UnassignedJobs) \div jobs_per_page + 2

\* C18: for every table, the pages 1, 2, ... taken in order show the
\* unassigned jobs in the order of their ids, each of them once and none left
\* out; a page that is followed by a page with rows has jobs_per_page rows,
\* and every page after the last job is empty.
C18_PagesPartition ==
    /\ RowsUpTo(PastLastPage) = OrderById(UnassignedJobs)
    /\ \A page \in 1..PastLastPage :
          /\ Len(AssignPageRows(page)) <= jobs_per_page
          /\ (page < PastLastPage /\ AssignPageRows(page + 1) # << >>) =>
                Len(AssignPageRows(page)) = jobs_per_page

\* page 2 has just been shown: it has rows, page 1 is full, and a job that
\* is assigned already is on neither
C18_Witness ==
    /\ rendered.by = "callback_handler_page"
    /\ rendered.screen = "AssignPage"
    /\ user_data[rendered.user].current_page = 2
    /\ Len(AssignPageRows(1)) = jobs_per_page
    /\ AssignPageRows(2) # << >>
    /\ UnassignedJobs # DOMAIN jobs

(* ------------------------------ photos -------------------------------- *)

\* the photo references of a job that were uploaded on a date, in upload order
PhotosDated(job_id, date) ==
    SelectSeq(jobs[job_id].photos, LAMBDA path : path.date = date)

\* no job has more than PhotoLimit photo references dated one day
PhotosWithinQuota ==
    \A j \in JobIds, date \in Dates : Len(PhotosDated(j, date)) <= PhotoLimit

\* C19: no job ever has more than 25 photo references dated one day; a photo
\* that passed verification and whose job has 25 references dated the date of
\* its file name already is refused with the photo-limit error and leaves
\* every row as it was; the upload mode is refused for a job that has 25
\* references dated today, and leaves the session as it was.
C19_PhotoQuota ==
    /\ []PhotosWithinQuota
    /\ [][\A s \in Slots :
             /\ (/\ At(s, "photo", "download")
                 /\ Len(PhotosDated(JobOf(s), inflight[s].today)) >= PhotoLimit
                 /\ handle_photo_store(s, TRUE)) =>
                   /\ jobs' = jobs
                   /\ rendered' = [user |-> UserOf(s), screen |-> "PhotoLimit",
                                   by |-> "handle_photo_store"]
             /\ (/\ Dispatching(s, "upload_photo")
                 /\ Len(PhotosDated(JobOf(s), DateOf(now))) >= PhotoLimit
                 /\ emp_upload_photo(s)) =>
                   /\ user_data' = user_data
                   /\ jobs' = jobs
                   /\ rendered' = [user |-> UserOf(s), screen |-> "PhotoLimit",
                                   by |-> "emp_upload_photo"]
         ]_vars

\* a photo has just been refused for the quota: the job it was for has 25
\* references of today
C19_Witness ==
    /\ rendered.by = "handle_photo_store"
    /\ rendered.screen = "PhotoLimit"
    /\ user_data[rendered.user].awaiting_photo_for # NULL
    /\ Len(PhotosDated(user_data[rendered.user].awaiting_photo_for, DateOf(now)))
          = PhotoLimit

\* C20: for every job and date, filter_photos_by_date gives the references of
\* the job uploaded on that date, in upload order, and nothing else (the
\* empty sequence when nothing was uploaded on the date).
C20_PhotosForDate ==
    \A j \in JobIds, date \in Dates :
       filter_photos_by_date(jobs[j].photos, date) = PhotosDated(j, date)

(* --------------------------- photo ingestion -------------------------- *)

\* C21: a photo reference occurs at most once among the photos of a job: the
\* same file sent again for the same job on the same day is not appended a
\* second time (and so is counted once for the day).
C21_PhotoOnce ==
    \A job_id \in DOMAIN jobs :
        \A i, k \in DOMAIN jobs[job_id].photos :
            jobs[job_id].photos[i] = jobs[job_id].photos[k] => i = k

\* C22: a photo is appended only to a job that is InProgress: whenever the
\* store step of a photo message changes the photos of a job, that job is
\* InProgress (never Pending or Completed), whatever happened between the
\* entry to the upload mode and the photo.
C22_PhotoOnlyInProgress ==
    [][\A s \in Slots, valid \in BOOLEAN :
          (/\ handle_photo_store(s, valid)
           /\ jobs'[JobOf(s)].photos # jobs[JobOf(s)].photos)
          => jobs[JobOf(s)].status = "in_progress"]_vars

(* ----------------------------- photo date ----------------------------- *)

\* the effective date of a job: the day of its finish time when it has one,
\* else the current day
EffectiveDate(job_id) ==
    IF jobs[job_id].finish_time # NULL THEN DateOf(jobs[job_id].finish_time)
    ELSE DateOf(now)

\* the photos of a job that are of its effective date
EffectivePhotos(job_id) ==
    filter_photos_by_date(jobs[job_id].photos, EffectiveDate(job_id))

\* C23: every screen that shows or counts the photos of a job (the employee's
\* job menu, the director's view of the job, the photo grid, the listing of
\* completed jobs) shows those of the job's effective date, whatever the day
\* it is viewed on.
C23_EffectiveDatePhotos ==
    [][/\ \A s \in Slots :
            (/\ \/ emp_job_menu(s) \/ director_send_job(s) \/ view_job_photos_grid(s)
             /\ JobOf(s) \in JobIds)
            => shown'.photos = EffectivePhotos(JobOf(s))
       /\ \A s \in Slots :
            director_view_completed_jobs(s)
            => \A k \in DOMAIN shown'.jobs :
                  SelectSeq(shown'.photos, LAMBDA path : path.job_id = shown'.jobs[k])
                    = EffectivePhotos(shown'.jobs[k])]_vars

(* -------------------------- completed listing ------------------------- *)

\* C28: the completed-jobs listing of an employee holds exactly the Completed
\* jobs assigned to that employee, each once, a job finished later before a
\* job finished earlier; so a job that was assigned to the employee, started
\* and then finished is in it, ahead of the jobs finished before it.
C28_CompletedListing ==
    [][\A s \in Slots :
          director_view_completed_jobs(s)
          => LET employee_id == JobOf(s)
                 listing == shown'.jobs
             IN  /\ \A k \in DOMAIN listing :
                       /\ jobs[listing[k]].status = "completed"
                       /\ jobs[listing[k]].assigned_to = employee_id
                 /\ \A job_id \in JobIds :
                       (/\ jobs[job_id].status = "completed"
                        /\ jobs[job_id].assigned_to = employee_id)
                       => \E k \in DOMAIN listing : listing[k] = job_id
                 /\ \A i, k \in DOMAIN listing :
                       /\ listing[i] = listing[k] => i = k
                       /\ i < k => jobs[listing[i]].finish_time
                                      >= jobs[listing[k]].finish_time]_vars

\* job 1 was assigned to employee 1 by the last user (whose selection is
\* gone and whose page cursor is left), started at tick 1 and
\* finished at tick 2; the listing of employee 1 shows it ahead of job 2,
\* finished at tick 0
C28_Witness ==
    /\ rendered.by = "director_view_completed_jobs"
    /\ shown.jobs = <<1, 2>>
    /\ ~user_data[NumUsers].has_selected_jobs
    /\ user_data[NumUsers].current_page = 1
    /\ jobs[1].assigned_to = 1
    /\ jobs[1].status = "completed"
    /\ jobs[1].start_time = 1
    /\ jobs[1].finish_time = 2
    /\ jobs[2].finish_time = 0

(* --------------------------- awaiting flags --------------------------- *)

\* the awaiting-input flags that are set in the session of user u
AwaitingFlags(u) ==
    {flag \in {"awaiting_photo_for", "awaiting_note_for", "awaiting_notes"} :
        \/ flag = "awaiting_photo_for" /\ user_data[u].awaiting_photo_for # NULL
        \/ flag = "awaiting_note_for" /\ user_data[u].awaiting_note_for # NULL
        \/ flag = "awaiting_notes" /\ user_data[u].awaiting_notes}

\* C24: at most one awaiting-input flag (a photo for a job, a note for a job,
\* notes for the selected jobs) is set for a user at any time.
C24_OneAwaiting ==
    \A u \in UserIds : Cardinality(AwaitingFlags(u)) <= 1

\* C25: "Done Uploading" leaves the user without the awaiting-photo flag and
\* without the bulk mode; a photo of a user without the flag is refused as not
\* expected and stored nowhere; and only the entry to the upload mode sets
\* the flag again.
C25_DoneUploading ==
    [][/\ \A s \in Slots :
            finish_photo_upload(s)
            => /\ user_data'[UserOf(s)].awaiting_photo_for = NULL
               /\ ~user_data'[UserOf(s)].bulk_upload_mode
       /\ \A u \in UserIds, file_id \in FileIds :
            (handle_photo(u, file_id) /\ user_data[u].awaiting_photo_for = NULL)
            => /\ rendered' = [user |-> u, screen |-> "NoPhotoExpected",
                               by |-> "handle_photo"]
               /\ inflight' = inflight
               /\ jobs' = jobs
       /\ \A u \in UserIds :
            (/\ user_data[u].awaiting_photo_for = NULL
             /\ user_data'[u].awaiting_photo_for # NULL)
            => \E s \in Slots : emp_upload_photo(s) /\ UserOf(s) = u]_vars

\* a photo is refused for a user who entered the upload mode (the return flag
\* is left) and pressed "Done Uploading" (the bulk mode is gone)
C25_Witness ==
    /\ rendered.by = "handle_photo"
    /\ rendered.screen = "NoPhotoExpected"
    /\ user_data[rendered.user].return_to_job_menu
    /\ ~user_data[rendered.user].bulk_upload_mode

\* C26: the action that follows an abandoned flow clears the flag the flow
\* left: after the job menu (the Cancel of the photo upload), a start or a
\* finish of a job, the user awaits no photo; after the Cancel of a note the
\* user awaits no note.
C26_AbandonClears ==
    [][\A s \in Slots :
          /\ (\/ At(s, "job_menu", "dispatch") /\ emp_job_menu(s)
              \/ At(s, "start_job", "dispatch") /\ emp_start_job(s)
              \/ At(s, "finish_job", "dispatch") /\ emp_finish_job(s))
             => user_data'[UserOf(s)].awaiting_photo_for = NULL
          /\ (At(s, "cancel_note", "dispatch") /\ director_send_job(s))
             => user_data'[UserOf(s)].awaiting_note_for = NULL]_vars

(* ------------------------------ isolation ----------------------------- *)

\* C29: a step changes the session of a user (selection, page cursor,
\* awaiting flags, photo viewer) only when it is a step of the handler of an
\* update of that user; so no action of one user, failing or not, changes
\* the session of another.
C29_SessionsApart ==
    [][\A v \in UserIds :
          user_data'[v] # user_data[v]
          => \E s \in Slots : /\ inflight[s] # Free
                               /\ UserOf(s) = v
                               /\ inflight'[s] # inflight[s]]_vars

\* the handler of the last user has failed while the first user has a
\* selection, awaits a photo and has the photo viewer open
C29_Witness ==
    /\ rendered = [user |-> NumUsers, screen |-> "ErrorOccurred",
                   by |-> "finish_photo_upload"]
    /\ user_data[1].awaiting_photo_for # NULL
    /\ user_data[1].current_photo_index # NULL
    /\ user_data[1].selected_jobs # {}
    /\ user_data[NumUsers] # user_data[1]

(* ------------------------------- routing ------------------------------ *)

\* data is the name of no screen and begins with the text of no family
Unmatched(data) ==
    /\ \A i \in DOMAIN ScreenTable : ScreenTable[i].data # data
    /\ \A i \in DOMAIN PrefixChain : ~StartsWith(data, PrefixChain[i])
    /\ data # <<"noop">>

UnmatchedTokens == {data \in Tokens : Unmatched(data)}

\* C27: a callback query whose data is the name of no screen and begins with
\* the text of no family is given the screen of the action that is not
\* supported; the table and the sessions are left as they were and the update
\* is handled to the end.
C27_UnknownToken ==
    [][/\ \A u \in UserIds, data \in UnmatchedTokens :
            callback_query(u, data) => inflight'[NextSlot].family = "unknown"
       /\ \A s \in Slots :
            (At(s, "unknown", "dispatch") /\ inflight'[s] # inflight[s])
            => /\ rendered' = [user |-> UserOf(s), screen |-> "UnknownAction",
                               by |-> "callback_handler_unknown"]
               /\ jobs' = jobs
               /\ user_data' = user_data
               /\ inflight'[s] = Free]_vars

\* the screen of the unsupported action has been rendered
C27_Witness ==
    /\ rendered.screen = "UnknownAction"
    /\ rendered.by = "callback_handler_unknown"
    /\ rendered.user \in UserIds

\* the tests of the router that are for the family of data: those whose text
\* is all of data (a family without argument) or all of data but its last
\* word, the argument
OwnTests(data) ==
    {i \in DOMAIN PrefixChain :
        IF PrefixChain[i].underscore
        THEN Len(data) > 1 /\ PrefixChain[i].prefix = SubSeq(data, 1, Len(data) - 1)
        ELSE PrefixChain[i].prefix = data}

\* the first of them: the branch that is written for the family
OwnBranch(data) == PrefixChain[CHOOSE i \in OwnTests(data) : \A k \in OwnTests(data) : i <= k]

\* the data that are of a family of the router, and for each the family and
\* the handler of its branch
FamilyTokens == {data \in Tokens : ~Unmatched(data) /\ OwnTests(data) # {}}
OwnTable ==
    [data \in FamilyTokens |-> [family |-> OwnBranch(data).family,
                                handler |-> OwnBranch(data).handler]]

\* C30: the data of a family select the branch and the handler written for
\* that family, also when the name of another family is the beginning of its
\* name; and an update whose argument is no number ends in the failure
\* screen, with the table and the sessions left as they were.
C30_OwnHandler ==
    [][/\ \A u \in UserIds, data \in FamilyTokens :
            callback_query(u, data)
            => /\ inflight'[NextSlot].family = OwnTable[data].family
               /\ RouteTable[data].handler = OwnTable[data].handler
       /\ \A s \in Slots :
            (/\ inflight[s] # Free
             /\ inflight[s].pc = "dispatch"
             /\ inflight[s].family \in IntFamilies
             /\ ~Parsed(s)
             /\ inflight'[s] # inflight[s])
            => /\ rendered' = [user |-> UserOf(s), screen |-> "ErrorOccurred",
                               by |-> "callback_handler_except"]
               /\ jobs' = jobs
               /\ user_data' = user_data
               /\ inflight'[s] = Free]_vars

\* view_photos_grid_<id> has been handled by the photo grid (which leaves the
\* page cursor at 0) and an update with an argument that is no number has
\* ended in the failure screen
C30_Witness ==
    /\ rendered.screen = "ErrorOccurred"
    /\ rendered.by = "callback_handler_except"
    /\ \E u \in UserIds : /\ user_data[u].current_page = 0
                          /\ user_data[u].job_photos # << >>
                          /\ user_data[u].current_photo_index = NULL

(* ------------------------ buttons of a page --------------------------- *)

\* C31: on a rendered assignment page "Next" is offered exactly when the page
\* holds jobs_per_page jobs and "Previous" exactly when its number is above 1;
\* when the number of unassigned jobs is a positive multiple of jobs_per_page,
\* the last full page offers "Next", and the page after it has no jobs and is
\* the no-jobs screen with its lone "Back".
C31_NavButtons ==
    /\ rendered.screen = "AssignPage" =>
          /\ "Next" \in shown.buttons <=> Len(shown.jobs) = jobs_per_page
          /\ "Previous" \in shown.buttons <=> shown.page > 1
    /\ \A last \in Pages :
          Cardinality(UnassignedJobs) = jobs_per_page * last =>
             /\ shown.page = last =>
                   rendered.screen = "AssignPage" /\ "Next" \in shown.buttons
             /\ shown.page = last + 1 =>
                   /\ rendered.screen = "NoJobsAvailable"
                   /\ shown.jobs = << >>
                   /\ shown.buttons = {"Back"}

\* ten jobs are unassigned and "Next" of page 1 has been followed: page 2 is
\* the no-jobs screen
C31_Witness ==
    /\ Cardinality(UnassignedJobs) = jobs_per_page
    /\ rendered.by = "callback_handler_page"
    /\ shown.page = 2
    /\ rendered.screen = "NoJobsAvailable"

(* ------------------------- failed ingestion --------------------------- *)

\* the screens that report a failed step of the ingestion
FailureScreens == {"PhotoVerificationFailed", "PhotoProcessingFailed", "DatabaseError"}

\* the step taken ends the handling of the photo in slot s with a failure:
\* get_file raised, or a failure was reported
IngestionFailed(s) ==
    /\ inflight[s] # Free
    /\ inflight[s].family = "photo"
    /\ inflight'[s] = Free
    /\ \/ inflight[s].pc = "get_file"
       \/ rendered'.screen \in FailureScreens

\* C32: when a step of the ingestion of a photo fails (the image does not
\* verify, the download, the save or a statement of the database raises),
\* the photos of every job are the same after the step as before.
C32_FailedIngestion ==
    [][\A s \in Slots : IngestionFailed(s) => jobs' = jobs]_vars

(* ------------------------- where a photo goes ------------------------- *)

\* C33: a photo message from a user whose session has no awaiting_photo_for
\* is refused with "No photo expected" and changes no row; a photo of a user
\* whose session awaits a photo for job X is handled for job X, and when it
\* is accepted its reference is appended to the photos of X while every
\* other row stays as it was.
C33_PhotoRouting ==
    [][/\ \A u \in UserIds, file_id \in FileIds :
             (user_data[u].awaiting_photo_for = NULL /\ handle_photo(u, file_id)) =>
                /\ jobs' = jobs
                /\ inflight' = inflight
                /\ rendered' = [user |-> u, screen |-> "NoPhotoExpected",
                                by |-> "handle_photo"]
       /\ \A s \in Slots :
             (At(s, "photo", "download") /\ handle_photo_store(s, TRUE)) =>
                LET X == user_data[UserOf(s)].awaiting_photo_for
                IN  /\ X \in JobIds
                    /\ \A j \in JobIds \ {X} : jobs'[j] = jobs[j]
                    /\ rendered'.screen # "PhotoLimit" =>
                          /\ Len(jobs'[X].photos) = Len(jobs[X].photos) + 1
                          /\ SubSeq(jobs'[X].photos, 1, Len(jobs[X].photos))
                                = jobs[X].photos
                          /\ jobs'[X].photos[Len(jobs'[X].photos)].file_id
                                = inflight[s].file_id
      ]_vars

\* the two users await photos for different jobs, and a photo has been
\* stored for the second job, which has two now, and not for the first,
\* which has the one it had
C33_Witness ==
    /\ user_data[1].awaiting_photo_for = 1
    /\ user_data[2].awaiting_photo_for = 2
    /\ Len(jobs[2].photos) = 2
    /\ \A k \in 1..2 : jobs[2].photos[k].job_id = 2
    /\ Len(jobs[1].photos) = 1
    /\ \A s \in Slots : inflight[s] = Free

(* ----------------------- frame of an assignment ----------------------- *)

\* C34: an assign-to action leaves the status, the start and finish times,
\* the scheduled date, the photos and the notes of every job as they were,
\* and leaves a job that is not selected as it was altogether.
C34_AssignFrame ==
    [][\A s \in Slots :
          (At(s, "assign_to", "dispatch") /\ assign_jobs_to_employee(s)) =>
             \A j \in JobIds :
                /\ jobs'[j].status = jobs[j].status
                /\ jobs'[j].start_time = jobs[j].start_time
                /\ jobs'[j].finish_time = jobs[j].finish_time
                /\ jobs'[j].scheduled_date = jobs[j].scheduled_date
                /\ jobs'[j].photos = jobs[j].photos
                /\ jobs'[j].notes = jobs[j].notes
                /\ j \notin SelectedJobs(UserOf(s)) => jobs'[j] = jobs[j]
      ]_vars

\* a job that was started and has a note was just assigned, still started,
\* while another job was not selected
C34_Witness ==
    /\ rendered.by = "assign_jobs_to_employee"
    /\ rendered.screen = "JobsAssigned"
    /\ \E j \in JobIds, k \in JobIds :
          /\ j \in SelectedJobs(rendered.user)
          /\ k \notin SelectedJobs(rendered.user)
          /\ jobs[j].status = "in_progress"
          /\ jobs[j].start_time # NULL
          /\ jobs[j].notes # << >>
          /\ \E s \in Slots : At(s, "assign_to", "assigned")
                               /\ jobs[j].assigned_to = inflight[s].arg

(* -------------------- assignment of an assigned job ------------------- *)

\* C35: an assign-to action assigns unassigned jobs only: a job of the
\* selection that has an assignee by the time of the action, given by
\* another director since the job was selected, keeps that assignee.
C35_AssignUnassignedOnly ==
    [][\A s \in Slots :
          (At(s, "assign_to", "dispatch") /\ assign_jobs_to_employee(s)) =>
             \A j \in JobIds :
                jobs[j].assigned_to # NULL =>
                   jobs'[j].assigned_to = jobs[j].assigned_to
      ]_vars

(* ------------------------- frame of the reset ------------------------- *)

\* C36: a run of the daily reset leaves the photos and the notes of every
\* job as they were, and leaves a Pending job as it was altogether: a job
\* that is Pending and assigned keeps its assignee.
C36_ResetFrame ==
    [][reset_jobs_daily =>
          \A j \in JobIds :
             /\ jobs'[j].photos = jobs[j].photos
             /\ jobs'[j].notes = jobs[j].notes
             /\ jobs[j].status = "pending" => jobs'[j] = jobs[j]
      ]_vars

\* the reset of today has reverted a job and passed over another, which is
\* Pending, has a note and still has its assignee
C36_Witness ==
    /\ ~reset_pending
    /\ last_reset.date = DateOf(now)
    /\ last_reset.jobs # {}
    /\ \E j \in JobIds \ last_reset.jobs :
          /\ jobs[j].status = "pending"
          /\ jobs[j].assigned_to # NULL
          /\ jobs[j].notes # << >>
          /\ jobs[j].start_time = NULL

(* ------------------- a reset between start and finish ----------------- *)

\* the last pass of the reset reverted job j, and j was not started since
\* (only the reset removes a start_time, only a start writes one)
RevertedSinceStart(j) == j \in last_reset.jobs /\ jobs[j].start_time = NULL

\* a pass of the reset ran on a day after the day j was started
ResetAfterStart(j) ==
    /\ jobs[j].start_time # NULL
    /\ last_reset.date # NULL
    /\ last_reset.date > DateOf(jobs[j].start_time)

\* the finish of job j handled in slot s is refused as not started and leaves
\* every row as it was, that of j being Pending with neither time
FinishRefusedAfterReset(s) ==
    /\ rendered' = [user |-> UserOf(s), screen |-> "JOB_NOT_STARTED",
                    by |-> "emp_finish_job"]
    /\ jobs' = jobs
    /\ jobs[JobOf(s)].status = "pending"
    /\ jobs[JobOf(s)].start_time = NULL
    /\ jobs[JobOf(s)].finish_time = NULL

\* a step that makes a job Completed finds it InProgress with a start_time
CompletedOnlyFromStarted ==
    \A j \in JobIds :
       (jobs[j].status # "completed" /\ jobs'[j].status = "completed") =>
          jobs[j].status = "in_progress" /\ jobs[j].start_time # NULL

\* C37 (as stated): when a pass of the daily reset has run since job j was
\* started, whatever date j is scheduled for, a finish of j is refused as not
\* started and j stays Pending with neither time; no job becomes Completed
\* without a start since the reset.
C37_ResetBeforeFinish ==
    [][/\ \A s \in Slots :
             (/\ Dispatching(s, "finish_job")
              /\ RevertedSinceStart(JobOf(s)) \/ ResetAfterStart(JobOf(s))
              /\ emp_finish_job(s)) => FinishRefusedAfterReset(s)
       /\ CompletedOnlyFromStarted
      ]_vars

\* C37 (amended): when the last pass of the daily reset reverted job j (j
\* was InProgress or Completed and scheduled for no date or for the day of
\* the pass) and j was not started since, a finish of j is refused as not
\* started and j stays Pending with neither time; no job becomes Completed
\* without a start since the reset.
C37_RevertedThenFinish ==
    [][/\ \A s \in Slots :
             (/\ Dispatching(s, "finish_job")
              /\ RevertedSinceStart(JobOf(s))
              /\ emp_finish_job(s)) => FinishRefusedAfterReset(s)
       /\ reset_jobs_daily =>
             \A j \in JobIds :
                (/\ jobs[j].status = "in_progress"
                 /\ jobs[j].scheduled_date \in {NULL, DateOf(now)}) =>
                   /\ j \in last_reset'.jobs
                   /\ jobs'[j].status = "pending"
                   /\ jobs'[j].assigned_to = NULL
                   /\ jobs'[j].start_time = NULL
                   /\ jobs'[j].finish_time = NULL
       /\ CompletedOnlyFromStarted
      ]_vars

\* the finish of a job that the reset reverted has just been refused: the job
\* is Pending, unassigned, with neither time, and no other job is Pending
C37_Witness ==
    /\ rendered.by = "emp_finish_job"
    /\ rendered.screen = "JOB_NOT_STARTED"
    /\ \E j \in last_reset.jobs :
          /\ jobs[j].status = "pending"
          /\ jobs[j].assigned_to = NULL
          /\ jobs[j].start_time = NULL
          /\ jobs[j].finish_time = NULL
          /\ \A k \in JobIds \ {j} : jobs[k].status # "pending"

(* --------------------------- pages of the grid ------------------------ *)

\* C38: a page p of the photo grid is accepted only when 0 <= p < ceil(n/10)
\* for the n photos held in the session: it becomes the stored page and the
\* grid shows photos; any other page is refused as invalid and leaves the
\* session as it was.
C38_GridPageInRange ==
    [][\A s \in Slots :
          (At(s, "photo_grid", "dispatch") /\ handle_photo_grid_navigation(s)) =>
             LET u == UserOf(s)
                 p == inflight[s].arg
                 n == Len(user_data[u].job_photos)
             IN  IF 0 <= p /\ p * photos_per_page < n
                 THEN /\ user_data'[u].current_page = p
                      /\ rendered'.screen = "PhotoGrid"
                      /\ shown'.photos # << >>
                 ELSE /\ rendered'.screen = "InvalidPage"
                      /\ user_data' = user_data
      ]_vars

(* --------------------- the two pages of a session --------------------- *)

\* C39: opening the photo grid or turning its page leaves the page of the
\* assignment list of the user as it was; the page of the assignment list of
\* a director who is selecting jobs is 1 or more, and a toggle renders a page
\* numbered 1 or more.
C39_PageCursorsApart ==
    /\ [][\A s \in Slots :
             /\ (view_job_photos_grid(s) \/ handle_photo_grid_navigation(s)) =>
                   user_data'[UserOf(s)].current_page
                      = user_data[UserOf(s)].current_page
             /\ handle_toggle_job(s) => shown'.page >= 1
         ]_vars
    /\ [](\A u \in UserIds : user_data[u].has_selected_jobs => CurrentPage(u) >= 1)

(* ------------------------- the bulk-mode flag ------------------------- *)

\* C40: in every session bulk_upload_mode is set only together with
\* awaiting_photo_for: a step that clears awaiting_photo_for (Done Uploading,
\* the employee home screen) clears bulk_upload_mode too.
C40_BulkOnlyWhileAwaiting ==
    \A u \in UserIds :
       user_data[u].bulk_upload_mode => user_data[u].awaiting_photo_for # NULL

====
